---------------------------- MODULE Spec2Model ----------------------------
(***************************************************************************)
(* A model of src/catur.py: the Board object (grid, side to move, castling *)
(* rights, en-passant target, clocks, undo stack), its move generator,     *)
(* attack test, legality filter, push_move / pop_move, the evaluator, the  *)
(* alpha-beta search and the two command loops that drive them.            *)
(*                                                                         *)
(* Python values are kept as they are in the source: a piece is a one      *)
(* character string, upper case for White, "." for an empty square; a      *)
(* square is a pair <<r, c>> with r = 0 the eighth rank.  Python's None is *)
(* the string "None" where a piece is expected and the empty tuple where a *)
(* square is expected.                                                     *)
(***************************************************************************)
EXTENDS Integers, Sequences, FiniteSets, TLC

VARIABLES
    board,              \* Board.board: 8 x 8 grid, board[r][c]
    white_to_move,      \* Board.white_to_move
    castling_rights,    \* Board.castling_rights: record K, Q, k, q
    en_passant_target,  \* Board.en_passant_target: <<r, c>> or NoSquare
    halfmove_clock,     \* Board.halfmove_clock
    fullmove_number,    \* Board.fullmove_number
    move_stack,         \* Board.move_stack: sequence of undo records
    pc,                 \* where the command loop stands
    script,             \* the lines the user has still to type
    raised,             \* the exception that ended the program, or None
    legal,              \* the list all_moves() returned at the top of this turn
    last,               \* what the last step of the loop did
    depth,              \* human_vs_ai: the search depth
    frames,             \* the activations of minimax, the root first
    rolls,              \* how many numbers random.uniform has handed out
    tape,               \* the numbers random.uniform hands out, in tenths
    at_call,            \* the Board as it was when the loop called minimax
    result,             \* what the root call of minimax returned
    cuts                \* the 'beta <= alpha' breaks taken by this search

-----------------------------------------------------------------------------
(* Python values *)

None == "None"
NoSquare == << >>

WhitePieces == {"P", "N", "B", "R", "Q", "K"}
BlackPieces == {"p", "n", "b", "r", "q", "k"}

Pieces == WhitePieces \cup BlackPieces \cup {"."}

\* str.isupper, str.upper and str.lower on the one-character piece strings
IsUpperOf == [p \in Pieces |-> p \in WhitePieces]

UpperOf ==
    [p \in Pieces |->
        CASE p \in {"P", "p"} -> "P"
          [] p \in {"N", "n"} -> "N"
          [] p \in {"B", "b"} -> "B"
          [] p \in {"R", "r"} -> "R"
          [] p \in {"Q", "q"} -> "Q"
          [] p \in {"K", "k"} -> "K"
          [] OTHER -> p]

LowerOf ==
    [p \in Pieces |->
        CASE p \in {"P", "p"} -> "p"
          [] p \in {"N", "n"} -> "n"
          [] p \in {"B", "b"} -> "b"
          [] p \in {"R", "r"} -> "r"
          [] p \in {"Q", "q"} -> "q"
          [] p \in {"K", "k"} -> "k"
          [] OTHER -> p]

isupper(p) == IsUpperOf[p]
upper(p) == UpperOf[p]
lower(p) == LowerOf[p]

abs(x) == IF x < 0 THEN -x ELSE x

\* ss[lo] \o ... \o ss[hi], by halves
RECURSIVE Flatten(_, _, _)
Flatten(ss, lo, hi) ==
    IF lo > hi THEN << >>
    ELSE IF lo = hi THEN ss[lo]
    ELSE LET mid == (lo + hi) \div 2
         IN  Flatten(ss, lo, mid) \o Flatten(ss, mid + 1, hi)

Row(cells) == [c \in 0..7 |-> cells[c + 1]]

-----------------------------------------------------------------------------
(* class Move *)

Move(from_sq, to_sq, piece, capture, promotion, en_passant, castling) ==
    [from_sq |-> from_sq, to_sq |-> to_sq, piece |-> piece, capture |-> capture,
     promotion |-> promotion, en_passant |-> en_passant, castling |-> castling]

-----------------------------------------------------------------------------
(* class Board: construction *)

StartingLayout ==
    [r \in 0..7 |->
        CASE r = 0 -> Row(<<"r", "n", "b", "q", "k", "b", "n", "r">>)
          [] r = 1 -> Row(<<"p", "p", "p", "p", "p", "p", "p", "p">>)
          [] r = 6 -> Row(<<"P", "P", "P", "P", "P", "P", "P", "P">>)
          [] r = 7 -> Row(<<"R", "N", "B", "Q", "K", "B", "N", "R">>)
          [] OTHER -> Row(<<".", ".", ".", ".", ".", ".", ".", ".">>)]

NewBoard ==
    [board |-> StartingLayout,
     white_to_move |-> TRUE,
     castling_rights |-> [K |-> TRUE, Q |-> TRUE, k |-> TRUE, q |-> TRUE],
     en_passant_target |-> NoSquare,
     halfmove_clock |-> 0,
     fullmove_number |-> 1,
     move_stack |-> << >>]

in_bounds(r, c) == 0 <= r /\ r < 8 /\ 0 <= c /\ c < 8

-----------------------------------------------------------------------------
(* Board.push_move and Board.pop_move *)

\* A variant in which a corner clears both rights of its rank.
RookHomeBothSides(cr, r, c) ==
    [cr EXCEPT !.Q = IF r = 7 /\ c \in {0, 7} THEN FALSE ELSE @,
               !.K = IF r = 7 /\ c \in {0, 7} THEN FALSE ELSE @,
               !.q = IF r = 0 /\ c \in {0, 7} THEN FALSE ELSE @,
               !.k = IF r = 0 /\ c \in {0, 7} THEN FALSE ELSE @]

RookHome(cr, r, c) ==
    [cr EXCEPT !.Q = IF r = 7 /\ c = 0 THEN FALSE ELSE @,
               !.K = IF r = 7 /\ c = 7 THEN FALSE ELSE @,
               !.q = IF r = 0 /\ c = 0 THEN FALSE ELSE @,
               !.k = IF r = 0 /\ c = 7 THEN FALSE ELSE @]

\* A variant that overlooks the capture of a rook.
PushRightsMoverOnly(cr, piece, captured, from_r, from_c, to_r, to_c) ==
    LET cr1 == IF upper(piece) = "K"
               THEN IF isupper(piece)
                    THEN [cr EXCEPT !.K = FALSE, !.Q = FALSE]
                    ELSE [cr EXCEPT !.k = FALSE, !.q = FALSE]
               ELSE cr
    IN  IF upper(piece) = "R" THEN RookHome(cr1, from_r, from_c) ELSE cr1

\* A variant in which a king's move clears its side's rights and the move of
\* any other piece hands every right back.
PushRightsRegranted(cr, piece, captured, from_r, from_c, to_r, to_c) ==
    IF upper(piece) = "K"
    THEN IF isupper(piece)
         THEN [cr EXCEPT !.K = FALSE, !.Q = FALSE]
         ELSE [cr EXCEPT !.k = FALSE, !.q = FALSE]
    ELSE [K |-> TRUE, Q |-> TRUE, k |-> TRUE, q |-> TRUE]

PushRights(cr, piece, captured, from_r, from_c, to_r, to_c) ==
    LET cr1 == IF upper(piece) = "K"
               THEN IF isupper(piece)
                    THEN [cr EXCEPT !.K = FALSE, !.Q = FALSE]
                    ELSE [cr EXCEPT !.k = FALSE, !.q = FALSE]
               ELSE cr
        cr2 == IF upper(piece) = "R" THEN RookHome(cr1, from_r, from_c) ELSE cr1
    IN  IF upper(captured) = "R" THEN RookHome(cr2, to_r, to_c) ELSE cr2

\* A variant that sets a target behind every pawn move, single steps and
\* captures included.
PushEnPassantTargetAnyPawn(piece, from_r, to_r, to_c) ==
    IF upper(piece) = "P"
    THEN <<(to_r + from_r) \div 2, to_c>>
    ELSE NoSquare

PushEnPassantTarget(piece, from_r, to_r, to_c) ==
    IF upper(piece) = "P" /\ abs(to_r - from_r) = 2
    THEN <<(to_r + from_r) \div 2, to_c>>
    ELSE NoSquare

\* A variant that resets the clock on captures only.
PushHalfmoveCapturesOnly(clock, piece, captured) ==
    IF captured # "." THEN 0 ELSE clock + 1

PushHalfmove(clock, piece, captured) ==
    IF upper(piece) = "P" \/ captured # "." THEN 0 ELSE clock + 1

PushCastleRook(b, move, to_r, to_c) ==
    IF move.castling
    THEN IF to_c = 6
         THEN [b EXCEPT ![to_r][5] = b[to_r][7], ![to_r][7] = "."]
         ELSE IF to_c = 2
              THEN [b EXCEPT ![to_r][3] = b[to_r][0], ![to_r][0] = "."]
              ELSE b
    ELSE b

\* A variant whose record does not keep the clock.
UndoRecordNoClock(move, captured, cr_snapshot, enp_snapshot, halfmove_snapshot) ==
    <<move, captured, cr_snapshot, enp_snapshot, 0>>

UndoRecord(move, captured, cr_snapshot, enp_snapshot, halfmove_snapshot) ==
    <<move, captured, cr_snapshot, enp_snapshot, halfmove_snapshot>>

PushMove(s, move) ==
    LET from_r == move.from_sq[1]
        from_c == move.from_sq[2]
        to_r == move.to_sq[1]
        to_c == move.to_sq[2]
        piece == s.board[from_r][from_c]
        captured == IF move.en_passant THEN s.board[from_r][to_c]
                    ELSE s.board[to_r][to_c]
        b1 == IF move.en_passant THEN [s.board EXCEPT ![from_r][to_c] = "."]
              ELSE s.board
        b2 == [b1 EXCEPT ![to_r][to_c] =
                  IF move.promotion = None THEN piece ELSE move.promotion]
        b3 == [b2 EXCEPT ![from_r][from_c] = "."]
        b4 == PushCastleRook(b3, move, to_r, to_c)
    IN  [board |-> b4,
         white_to_move |-> ~s.white_to_move,
         castling_rights |->
             PushRights(s.castling_rights, piece, captured,
                        from_r, from_c, to_r, to_c),
         en_passant_target |-> PushEnPassantTarget(piece, from_r, to_r, to_c),
         halfmove_clock |-> PushHalfmove(s.halfmove_clock, piece, captured),
         fullmove_number |->
             IF ~s.white_to_move THEN s.fullmove_number + 1
             ELSE s.fullmove_number,
         move_stack |->
             Append(s.move_stack,
                    UndoRecord(move, captured, s.castling_rights,
                               s.en_passant_target, s.halfmove_clock))]

PopPiece(b, move, to_r, to_c) ==
    IF move.promotion # None
    THEN IF isupper(move.promotion) THEN "P" ELSE "p"
    ELSE b[to_r][to_c]

\* a pop_move that puts every captured piece back on the destination square
PopCapturedOnTarget(b, move, captured, from_r, to_r, to_c) ==
    [b EXCEPT ![to_r][to_c] = captured]

PopCaptured(b, move, captured, from_r, to_r, to_c) ==
    IF move.en_passant
    THEN [b EXCEPT ![from_r][to_c] = captured, ![to_r][to_c] = "."]
    ELSE [b EXCEPT ![to_r][to_c] = captured]

PopCastleRook(b, move, to_r, to_c) ==
    IF move.castling
    THEN IF to_c = 6
         THEN [b EXCEPT ![to_r][7] = b[to_r][5], ![to_r][5] = "."]
         ELSE IF to_c = 2
              THEN [b EXCEPT ![to_r][0] = b[to_r][3], ![to_r][3] = "."]
              ELSE b
    ELSE b

\* a pop_move that leaves fullmove_number alone
PopFullmoveKept(n, white_after) == n

\* A variant that counts down on every pop.
PopFullmoveEveryPly(n, white_after) == n - 1

PopFullmove(n, white_after) == IF ~white_after THEN n - 1 ELSE n

\* A variant whose pop on an empty history still hands the turn over.
PopMoveEmptyToggles(s) ==
    IF s.move_stack = << >> THEN [s EXCEPT !.white_to_move = ~@]
    ELSE
    LET top == s.move_stack[Len(s.move_stack)]
        move == top[1]
        captured == top[2]
        from_r == move.from_sq[1]
        from_c == move.from_sq[2]
        to_r == move.to_sq[1]
        to_c == move.to_sq[2]
        piece == PopPiece(s.board, move, to_r, to_c)
        b1 == [s.board EXCEPT ![from_r][from_c] = piece]
        b2 == PopCaptured(b1, move, captured, from_r, to_r, to_c)
        b3 == PopCastleRook(b2, move, to_r, to_c)
    IN  [board |-> b3,
         white_to_move |-> ~s.white_to_move,
         castling_rights |-> top[3],
         en_passant_target |-> top[4],
         halfmove_clock |-> top[5],
         fullmove_number |-> PopFullmove(s.fullmove_number, ~s.white_to_move),
         move_stack |-> SubSeq(s.move_stack, 1, Len(s.move_stack) - 1)]

PopMove(s) ==
    IF s.move_stack = << >> THEN s
    ELSE
    LET top == s.move_stack[Len(s.move_stack)]
        move == top[1]
        captured == top[2]
        from_r == move.from_sq[1]
        from_c == move.from_sq[2]
        to_r == move.to_sq[1]
        to_c == move.to_sq[2]
        piece == PopPiece(s.board, move, to_r, to_c)
        b1 == [s.board EXCEPT ![from_r][from_c] = piece]
        b2 == PopCaptured(b1, move, captured, from_r, to_r, to_c)
        b3 == PopCastleRook(b2, move, to_r, to_c)
    IN  [board |-> b3,
         white_to_move |-> ~s.white_to_move,
         castling_rights |-> top[3],
         en_passant_target |-> top[4],
         halfmove_clock |-> top[5],
         fullmove_number |-> PopFullmove(s.fullmove_number, ~s.white_to_move),
         move_stack |-> SubSeq(s.move_stack, 1, Len(s.move_stack) - 1)]

-----------------------------------------------------------------------------
(* Move generation.  A call that runs Python code which toggles            *)
(* white_to_move returns a record: its value, the white_to_move it leaves  *)
(* behind, and err = TRUE when the call never returns (the chain           *)
(* _moves_for_piece -> _can_castle_* -> is_king_in_check ->                *)
(* _square_attacked -> _generate_pseudo_legal_moves re-enters a generation *)
(* that is already on the call stack, on the same board, so it repeats     *)
(* without end; CPython ends it with RecursionError).  stk is the set of   *)
(* colours whose generation is on the call stack.                          *)

PromoKinds == <<"Q", "R", "B", "N">>

\* A variant with one jump a file too long.
KnightJumpsOneLong ==
    <<<<2, 1>>, <<2, -1>>, <<-2, 1>>, <<-2, -1>>,
      <<1, 2>>, <<1, -3>>, <<-1, 2>>, <<-1, -2>>>>

KnightJumps ==
    <<<<2, 1>>, <<2, -1>>, <<-2, 1>>, <<-2, -1>>,
      <<1, 2>>, <<1, -2>>, <<-1, 2>>, <<-1, -2>>>>

DiagonalVectors == <<<<-1, -1>>, <<-1, 1>>, <<1, -1>>, <<1, 1>>>>
StraightVectors == <<<<-1, 0>>, <<1, 0>>, <<0, -1>>, <<0, 1>>>>

KingSteps ==
    <<<<-1, -1>>, <<-1, 0>>, <<-1, 1>>, <<0, -1>>,
      <<0, 1>>, <<1, -1>>, <<1, 0>>, <<1, 1>>>>

\* A variant that promotes to a queen only.
PromotionsQueenOnly(from_sq, to_sq, p, capture) ==
    <<Move(from_sq, to_sq, p, capture, IF isupper(p) THEN "Q" ELSE "q", FALSE, FALSE)>>

Promotions(from_sq, to_sq, p, capture) ==
    [i \in 1..4 |->
        Move(from_sq, to_sq, p, capture,
             IF isupper(p) THEN PromoKinds[i] ELSE lower(PromoKinds[i]),
             FALSE, FALSE)]

\* A variant without the step of two squares.
PawnSingleStep(b, r, c, p) ==
    LET dir == IF isupper(p) THEN -1 ELSE 1
    IN  IF in_bounds(r + dir, c) /\ b[r + dir][c] = "."
        THEN IF r + dir = 0 \/ r + dir = 7
             THEN Promotions(<<r, c>>, <<r + dir, c>>, p, None)
             ELSE <<Move(<<r, c>>, <<r + dir, c>>, p, None, None, FALSE, FALSE)>>
        ELSE << >>

\* A variant whose step of two squares jumps over the nearer square.
PawnStepJumps(b, r, c, p) ==
    LET dir == IF isupper(p) THEN -1 ELSE 1
        start_rank == IF isupper(p) THEN 6 ELSE 1
    IN  (IF in_bounds(r + dir, c) /\ b[r + dir][c] = "."
         THEN (IF r + dir = 0 \/ r + dir = 7
               THEN Promotions(<<r, c>>, <<r + dir, c>>, p, None)
               ELSE <<Move(<<r, c>>, <<r + dir, c>>, p, None, None, FALSE, FALSE)>>)
         ELSE << >>)
        \o
        (IF r = start_rank /\ b[r + 2 * dir][c] = "."
         THEN <<Move(<<r, c>>, <<r + 2 * dir, c>>, p, None, None, FALSE, FALSE)>>
         ELSE << >>)

PawnStep(b, r, c, p) ==
    LET dir == IF isupper(p) THEN -1 ELSE 1
        start_rank == IF isupper(p) THEN 6 ELSE 1
    IN  IF in_bounds(r + dir, c) /\ b[r + dir][c] = "."
        THEN (IF r + dir = 0 \/ r + dir = 7
              THEN Promotions(<<r, c>>, <<r + dir, c>>, p, None)
              ELSE <<Move(<<r, c>>, <<r + dir, c>>, p, None, None, FALSE, FALSE)>>)
             \o
             (IF r = start_rank /\ b[r + 2 * dir][c] = "."
              THEN <<Move(<<r, c>>, <<r + 2 * dir, c>>, p, None, None, FALSE, FALSE)>>
              ELSE << >>)
        ELSE << >>

PawnCapture(b, r, c, p, dc) ==
    LET dir == IF isupper(p) THEN -1 ELSE 1
        nr == r + dir
        nc == c + dc
    IN  IF ~in_bounds(nr, nc) THEN << >>
        ELSE LET target == b[nr][nc]
             IN  IF target # "." /\ isupper(target) # isupper(p)
                 THEN IF nr = 0 \/ nr = 7
                      THEN Promotions(<<r, c>>, <<nr, nc>>, p, target)
                      ELSE <<Move(<<r, c>>, <<nr, nc>>, p, target, None, FALSE, FALSE)>>
                 ELSE << >>

\* A variant that generates no en-passant capture.
PawnEnPassantNone(b, ep_sq, r, c, p) == << >>

PawnEnPassant(b, ep_sq, r, c, p) ==
    LET dir == IF isupper(p) THEN -1 ELSE 1
    IN  IF ep_sq # NoSquare
           /\ (<<r + dir, c - 1>> = ep_sq \/ <<r + dir, c + 1>> = ep_sq)
           /\ abs(ep_sq[2] - c) = 1 /\ ep_sq[1] = r + dir
        THEN LET cap_piece == b[r][ep_sq[2]]
             IN  IF cap_piece # "." /\ upper(cap_piece) = "P"
                    /\ isupper(cap_piece) # isupper(p)
                 THEN <<Move(<<r, c>>, ep_sq, p, cap_piece, None, TRUE, FALSE)>>
                 ELSE << >>
        ELSE << >>

PawnMoves(s, r, c, p) ==
    PawnStep(s.board, r, c, p)
    \o PawnCapture(s.board, r, c, p, -1)
    \o PawnCapture(s.board, r, c, p, 1)
    \o PawnEnPassant(s.board, s.en_passant_target, r, c, p)

\* one target of a knight or of a king: empty or of the other colour
StepMove(b, r, c, p, d) ==
    LET nr == r + d[1]
        nc == c + d[2]
    IN  IF ~in_bounds(nr, nc) THEN << >>
        ELSE LET target == b[nr][nc]
             IN  IF target = "." \/ isupper(target) # isupper(p)
                 THEN <<Move(<<r, c>>, <<nr, nc>>, p,
                             IF target # "." THEN target ELSE None,
                             None, FALSE, FALSE)>>
                 ELSE << >>

KnightMoves(b, r, c, p) ==
    Flatten([i \in 1..8 |-> StepMove(b, r, c, p, KnightJumps[i])], 1, 8)

RECURSIVE Ray(_, _, _, _, _, _, _)
Ray(b, r, c, p, d, nr, nc) ==
    IF ~in_bounds(nr, nc) THEN << >>
    ELSE LET target == b[nr][nc]
         IN  IF target = "."
             THEN <<Move(<<r, c>>, <<nr, nc>>, p, None, None, FALSE, FALSE)>>
                  \o Ray(b, r, c, p, d, nr + d[1], nc + d[2])
             ELSE IF isupper(target) # isupper(p)
                  THEN <<Move(<<r, c>>, <<nr, nc>>, p, target, None, FALSE, FALSE)>>
                  ELSE << >>

SliderVectors(p) ==
    (IF upper(p) \in {"B", "Q"} THEN DiagonalVectors ELSE << >>)
    \o (IF upper(p) \in {"R", "Q"} THEN StraightVectors ELSE << >>)

SliderMoves(b, r, c, p) ==
    LET vectors == SliderVectors(p)
    IN  Flatten([i \in 1..Len(vectors) |->
                    Ray(b, r, c, p, vectors[i],
                        r + vectors[i][1], c + vectors[i][2])],
                1, Len(vectors))

KingSteppingMoves(b, r, c, p) ==
    Flatten([i \in 1..8 |-> StepMove(b, r, c, p, KingSteps[i])], 1, 8)

\* the result of a call that leaves white_to_move as wtm
Ret(val, wtm) == [val |-> val, white_to_move |-> wtm, err |-> FALSE]
\* a call that does not return; the side to move stays as the call left it
Diverged(wtm) == [val |-> FALSE, white_to_move |-> wtm, err |-> TRUE]

HasMoveTo(moves, sq) == \E i \in 1..Len(moves) : moves[i].to_sq = sq

\* an early return that skips 'self.white_to_move = saved'
AttackedEarlyReturnUnrestored(s, saved) == Ret(TRUE, s.white_to_move)

AttackedEarlyReturn(s, saved) == Ret(TRUE, saved)
AttackedFallThrough(s, saved) == Ret(FALSE, saved)

FindKing(b, king) ==
    LET at == {i \in 0..63 : b[i \div 8][i % 8] = king}
    IN  IF at = {} THEN NoSquare
        ELSE LET i == CHOOSE j \in at : \A k \in at : j <= k
             IN  <<i \div 8, i % 8>>

CastleKingsideShape(b, white) ==
    LET r == IF white THEN 7 ELSE 0
    IN  /\ b[r][4] = (IF white THEN "K" ELSE "k")
        /\ b[r][7] = (IF white THEN "R" ELSE "r")
        /\ b[r][5] = "." /\ b[r][6] = "."

CastleQueensideShape(b, white) ==
    LET r == IF white THEN 7 ELSE 0
    IN  /\ b[r][4] = (IF white THEN "K" ELSE "k")
        /\ b[r][0] = (IF white THEN "R" ELSE "r")
        /\ b[r][1] = "." /\ b[r][2] = "." /\ b[r][3] = "."

RECURSIVE GenRange(_, _, _, _)
RECURSIVE GeneratePseudoLegalMoves(_, _)
RECURSIVE MovesForPiece(_, _, _, _, _)
RECURSIVE KingMoves(_, _, _, _, _)
RECURSIVE CanCastle(_, _, _, _, _)
RECURSIVE CanCastleKingside(_, _, _)
RECURSIVE CanCastleQueenside(_, _, _)
RECURSIVE SquareAttacked(_, _, _, _)
RECURSIVE IsKingInCheck(_, _, _)

\* _square_attacked after the generation g it asked for has come back
SquareAttackedScan(s, sq, saved, g) ==
    IF g.err THEN Diverged(g.white_to_move)
    ELSE IF HasMoveTo(g.val, sq)
         THEN AttackedEarlyReturn([s EXCEPT !.white_to_move = g.white_to_move], saved)
         ELSE AttackedFallThrough([s EXCEPT !.white_to_move = g.white_to_move], saved)

SquareAttacked(s, sq, by_white, stk) ==
    SquareAttackedScan(s, sq, s.white_to_move,
        GeneratePseudoLegalMoves([s EXCEPT !.white_to_move = by_white], stk))

IsKingInCheckAt(s, white, stk, king_sq) ==
    IF king_sq = NoSquare THEN Ret(FALSE, s.white_to_move)
    ELSE SquareAttacked(s, king_sq, ~white, stk)

IsKingInCheck(s, white, stk) ==
    IsKingInCheckAt(s, white, stk, FindKing(s.board, IF white THEN "K" ELSE "k"))

\* the tail of _can_castle_*: the king is not in check and none of the
\* squares of path (in the order the code tests them) is attacked; a is the
\* answer of test i
CanCastleAfter(s, white, path, i, stk, a) ==
    IF a.err THEN a
    ELSE IF a.val THEN Ret(FALSE, a.white_to_move)
    ELSE CanCastle([s EXCEPT !.white_to_move = a.white_to_move],
                   white, path, i + 1, stk)

CanCastle(s, white, path, i, stk) ==
    IF i > Len(path) THEN Ret(TRUE, s.white_to_move)
    ELSE CanCastleAfter(s, white, path, i, stk,
                        IF i = 0 THEN IsKingInCheck(s, white, stk)
                        ELSE SquareAttacked(s, path[i], ~white, stk))

CanCastleKingside(s, white, stk) ==
    IF ~CastleKingsideShape(s.board, white) THEN Ret(FALSE, s.white_to_move)
    ELSE CanCastle(s, white,
                   <<<<IF white THEN 7 ELSE 0, 5>>, <<IF white THEN 7 ELSE 0, 6>>>>,
                   0, stk)

CanCastleQueenside(s, white, stk) ==
    IF ~CastleQueensideShape(s.board, white) THEN Ret(FALSE, s.white_to_move)
    ELSE CanCastle(s, white,
                   <<<<IF white THEN 7 ELSE 0, 3>>, <<IF white THEN 7 ELSE 0, 2>>>>,
                   0, stk)

CastleMove(r, c, p, to_c, can) ==
    IF can THEN <<Move(<<r, c>>, <<r, to_c>>, p, None, None, FALSE, TRUE)>> ELSE << >>

\* the king's moves once both castling tests ks and qs have answered
KingMovesBoth(s, r, c, p, ks, qs) ==
    IF qs.err THEN qs
    ELSE Ret(KingSteppingMoves(s.board, r, c, p)
             \o CastleMove(r, c, p, c + 2, ks.val)
             \o CastleMove(r, c, p, c - 2, qs.val),
             qs.white_to_move)

\* ... once the king-side test ks has answered
KingMovesKingside(s, r, c, p, stk, ks) ==
    IF ks.err THEN ks
    ELSE KingMovesBoth(s, r, c, p, ks,
            IF (IF isupper(p) THEN s.castling_rights.Q ELSE s.castling_rights.q)
            THEN CanCastleQueenside([s EXCEPT !.white_to_move = ks.white_to_move],
                                    isupper(p), stk)
            ELSE Ret(FALSE, ks.white_to_move))

KingMoves(s, r, c, p, stk) ==
    KingMovesKingside(s, r, c, p, stk,
        IF (IF isupper(p) THEN s.castling_rights.K ELSE s.castling_rights.k)
        THEN CanCastleKingside(s, isupper(p), stk)
        ELSE Ret(FALSE, s.white_to_move))

MovesForPiece(s, r, c, p, stk) ==
    CASE upper(p) = "P" -> Ret(PawnMoves(s, r, c, p), s.white_to_move)
      [] upper(p) = "N" -> Ret(KnightMoves(s.board, r, c, p), s.white_to_move)
      [] upper(p) \in {"B", "R", "Q"} ->
            Ret(SliderMoves(s.board, r, c, p), s.white_to_move)
      [] upper(p) = "K" -> KingMoves(s, r, c, p, stk)
      [] OTHER -> Ret(<< >>, s.white_to_move)

\* one square of the loop of _generate_pseudo_legal_moves
GenSquare(s, r, c, p, stk) ==
    IF p = "." \/ isupper(p) # s.white_to_move
    THEN Ret(<< >>, s.white_to_move)
    ELSE MovesForPiece(s, r, c, p, stk)

GenJoin(left, right) ==
    IF right.err THEN right
    ELSE Ret(left.val \o right.val, right.white_to_move)

GenSecondHalf(s, lo, hi, stk, left) ==
    IF left.err THEN left
    ELSE GenJoin(left, GenRange([s EXCEPT !.white_to_move = left.white_to_move],
                                lo, hi, stk))

\* the loop of _generate_pseudo_legal_moves over the squares lo..hi (numbered
\* row by row), in order: the first half, then the second half from the
\* white_to_move the first half left; each square is tested against the
\* white_to_move of that moment
GenRange(s, lo, hi, stk) ==
    IF lo = hi
    THEN GenSquare(s, lo \div 8, lo % 8, s.board[lo \div 8][lo % 8], stk)
    ELSE GenSecondHalf(s, ((lo + hi) \div 2) + 1, hi, stk,
                       GenRange(s, lo, (lo + hi) \div 2, stk))

GeneratePseudoLegalMoves(s, stk) ==
    IF s.white_to_move \in stk THEN Diverged(s.white_to_move)
    ELSE GenRange(s, 0, 63, stk \cup {s.white_to_move})

-----------------------------------------------------------------------------
(* Board.all_moves: the legality filter.  The result carries the list of   *)
(* legal moves in val and the whole Board as the call leaves it in state.  *)

Done(val, s) == [val |-> val, state |-> s, err |-> FALSE]
Crashed(s) == [val |-> << >>, state |-> s, err |-> TRUE]

\* A variant that keeps every pseudo-legal move.
FilterKeepAll(in_check, m) == <<m>>

FilterKeep(in_check, m) == IF ~in_check THEN <<m>> ELSE << >>

\* one turn of the loop of all_moves: push, test, pop
FilterTested(s1, m, chk) ==
    IF chk.err THEN Crashed([s1 EXCEPT !.white_to_move = chk.white_to_move])
    ELSE Done(FilterKeep(chk.val, m),
              PopMove([s1 EXCEPT !.white_to_move = chk.white_to_move]))

FilterPushed(s1, m) ==
    FilterTested(s1, m, IsKingInCheck(s1, ~s1.white_to_move, {}))

FilterOne(s, m) == FilterPushed(PushMove(s, m), m)

FilterJoin(left, right) ==
    IF right.err THEN right
    ELSE Done(left.val \o right.val, right.state)

RECURSIVE FilterRange(_, _, _, _)
FilterSecondHalf(moves, lo, hi, left) ==
    IF left.err THEN left
    ELSE FilterJoin(left, FilterRange(left.state, moves, lo, hi))

\* the loop of all_moves over moves[lo..hi], in order
FilterRange(s, moves, lo, hi) ==
    IF lo > hi THEN Done(<< >>, s)
    ELSE IF lo = hi THEN FilterOne(s, moves[lo])
    ELSE FilterSecondHalf(moves, ((lo + hi) \div 2) + 1, hi,
                          FilterRange(s, moves, lo, (lo + hi) \div 2))

AllMovesOf(s, g) ==
    IF g.err THEN Crashed([s EXCEPT !.white_to_move = g.white_to_move])
    ELSE FilterRange([s EXCEPT !.white_to_move = g.white_to_move],
                     g.val, 1, Len(g.val))

AllMoves(s) == AllMovesOf(s, GeneratePseudoLegalMoves(s, {}))

-----------------------------------------------------------------------------
(* Board.is_checkmate and Board.is_stalemate.  listed is the list the      *)
(* all_moves() call inside returned, when called says it was made.         *)

Answer(val, s, called, listed) ==
    [val |-> val, state |-> s, err |-> FALSE, called |-> called, listed |-> listed]
NoAnswer(s) ==
    [val |-> FALSE, state |-> s, err |-> TRUE, called |-> FALSE, listed |-> << >>]

Listed(a) ==
    IF a.err THEN NoAnswer(a.state)
    ELSE Answer(Len(a.val) = 0, a.state, TRUE, a.val)

\* c is the answer of is_king_in_check(self.white_to_move)
IsCheckmateIn(s, c) ==
    IF c.err THEN NoAnswer([s EXCEPT !.white_to_move = c.white_to_move])
    ELSE IF ~c.val
         THEN Answer(FALSE, [s EXCEPT !.white_to_move = c.white_to_move], FALSE, << >>)
         ELSE Listed(AllMoves([s EXCEPT !.white_to_move = c.white_to_move]))

IsCheckmate(s) == IsCheckmateIn(s, IsKingInCheck(s, s.white_to_move, {}))

IsStalemateIn(s, c) ==
    IF c.err THEN NoAnswer([s EXCEPT !.white_to_move = c.white_to_move])
    ELSE IF c.val
         THEN Answer(FALSE, [s EXCEPT !.white_to_move = c.white_to_move], FALSE, << >>)
         ELSE Listed(AllMoves([s EXCEPT !.white_to_move = c.white_to_move]))

IsStalemate(s) == IsStalemateIn(s, IsKingInCheck(s, s.white_to_move, {}))

DrawByFiftyMoveRule(s) == s.halfmove_clock >= 100

-----------------------------------------------------------------------------
(* CLI helpers: parse_square and parse_uci_move.  A line of input is a     *)
(* tuple of one-character strings.                                         *)

FILES == <<"a", "b", "c", "d", "e", "f", "g", "h">>
RANKS == <<"1", "2", "3", "4", "5", "6", "7", "8">>

\* str.index: the 0-based place of ch, or -1 where Python raises ValueError
Index(chars, ch) ==
    IF \E i \in 1..Len(chars) : chars[i] = ch
    THEN (CHOOSE i \in 1..Len(chars) : chars[i] = ch) - 1
    ELSE -1

\* s[lo:hi]
Slice(s, lo, hi) ==
    LET top == IF hi < Len(s) THEN hi ELSE Len(s)
    IN  IF lo >= top THEN << >> ELSE SubSeq(s, lo + 1, top)

\* the square, or NoSquare where parse_square raises
ParseSquare(s) ==
    IF Len(s) # 2 THEN NoSquare
    ELSE LET c == Index(FILES, s[1])
             r == Index(RANKS, s[2])
         IN  IF c < 0 \/ r < 0 THEN NoSquare ELSE <<7 - r, c>>

\* str.upper / str.lower of a typed character
TypedUpper(ch) == IF ch \in Pieces THEN UpperOf[ch] ELSE ch
TypedLower(ch) == IF ch \in Pieces THEN LowerOf[ch] ELSE ch

MatchesTyped(m, from_sq, to_sq, promo) ==
    /\ m.from_sq = from_sq
    /\ m.to_sq = to_sq
    /\ \/ promo = None /\ m.promotion = None
       \/ promo # None /\ m.promotion # None /\ m.promotion = promo

\* the place in moves (the list board.all_moves() returns) of the move
\* parse_uci_move returns, or 0 where it returns None
ParseUciMove(s, white, moves) ==
    LET from_sq == ParseSquare(Slice(s, 0, 2))
        to_sq == ParseSquare(Slice(s, 2, 4))
        promo == IF Len(s) = 5
                 THEN (IF white THEN TypedUpper(s[5]) ELSE TypedLower(s[5]))
                 ELSE None
        hits == {i \in 1..Len(moves) : MatchesTyped(moves[i], from_sq, to_sq, promo)}
    IN  IF from_sq = NoSquare \/ to_sq = NoSquare \/ hits = {} THEN 0
        ELSE CHOOSE i \in hits : \A j \in hits : i <= j

-----------------------------------------------------------------------------
(* The program state and the lines typed *)

Self ==
    [board |-> board, white_to_move |-> white_to_move,
     castling_rights |-> castling_rights, en_passant_target |-> en_passant_target,
     halfmove_clock |-> halfmove_clock, fullmove_number |-> fullmove_number,
     move_stack |-> move_stack]

SetSelf(s) ==
    /\ board' = s.board
    /\ white_to_move' = s.white_to_move
    /\ castling_rights' = s.castling_rights
    /\ en_passant_target' = s.en_passant_target
    /\ halfmove_clock' = s.halfmove_clock
    /\ fullmove_number' = s.fullmove_number
    /\ move_stack' = s.move_stack

boardVars ==
    <<board, white_to_move, castling_rights, en_passant_target,
      halfmove_clock, fullmove_number, move_stack>>

\* the longest game the model plays
MaxPly == 100

QUIT == <<"q", "u", "i", "t">>
UNDO == <<"u", "n", "d", "o">>
\* stands for any one line that names a legal move of the position
ANY == <<"*">>

\* the games typed at human_vs_human
Games ==
    { \* en passant: 1.e4 Nc6 2.e5 d5 3.exd6, then any move
      <<<<"e","2","e","4">>, <<"b","8","c","6">>, <<"e","4","e","5">>,
        <<"d","7","d","5">>, <<"e","5","d","6">>, ANY>>,
      \* 1.e4 Nc6 2.e5 d5, any move, and one taken back
      <<<<"e","2","e","4">>, <<"b","8","c","6">>, <<"e","4","e","5">>,
        <<"d","7","d","5">>, ANY, UNDO>>,
      \* en passant by Black: 1.a3 e5 2.a4 e4 3.d4, then any move
      <<<<"a","2","a","3">>, <<"e","7","e","5">>, <<"a","3","a","4">>,
        <<"e","5","e","4">>, <<"d","2","d","4">>, ANY>>,
      \* White castles king side: 1.Nf3 a6 2.e3 a5 3.Be2 a4 4.O-O
      <<<<"g","1","f","3">>, <<"a","7","a","6">>, <<"e","2","e","3">>,
        <<"a","6","a","5">>, <<"f","1","e","2">>, <<"a","5","a","4">>,
        <<"e","1","g","1">>, ANY>>,
      \* a black pawn reaches e2 beside the king: 1.Nf3 d5 2.g3 d4 3.Bg2 d3
      \* 4.a3 dxe2 5.O-O
      <<<<"g","1","f","3">>, <<"d","7","d","5">>, <<"g","2","g","3">>,
        <<"d","5","d","4">>, <<"f","1","g","2">>, <<"d","4","d","3">>,
        <<"a","2","a","3">>, <<"d","3","e","2">>, <<"e","1","g","1">>, ANY>>,
      \* both sides clear their king side: 1.Nf3 Nf6 2.g3 g6 3.Bg2 Bg7
      <<<<"g","1","f","3">>, <<"g","8","f","6">>, <<"g","2","g","3">>,
        <<"g","7","g","6">>, <<"f","1","g","2">>, <<"f","8","g","7">>>>,
      \* promotion: 1.h4 g5 2.hxg5 Nf6 3.g6 h6 4.g7 h5 5.gxh8=Q
      <<<<"h","2","h","4">>, <<"g","7","g","5">>, <<"h","4","g","5">>,
        <<"g","8","f","6">>, <<"g","5","g","6">>, <<"h","7","h","6">>,
        <<"g","6","g","7">>, <<"h","6","h","5">>, <<"g","7","h","8","q">>, ANY>>,
      \* the same up to 4...h5, then any move
      <<<<"h","2","h","4">>, <<"g","7","g","5">>, <<"h","4","g","5">>,
        <<"g","8","f","6">>, <<"g","5","g","6">>, <<"h","7","h","6">>,
        <<"g","6","g","7">>, <<"h","6","h","5">>, ANY, UNDO, UNDO>>,
      \* fool's mate: 1.f3 e5 2.g4 Qh4#
      <<<<"f","2","f","3">>, <<"e","7","e","5">>, <<"g","2","g","4">>,
        <<"d","8","h","4">>>>,
      \* a check with one answer: 1.e4 f6 2.Qh5+, then any move
      <<<<"e","2","e","4">>, <<"f","7","f","6">>, <<"d","1","h","5">>, ANY, ANY>>,
      \* 1.e4 e5 2.Nf3, then any move
      <<<<"e","2","e","4">>, <<"e","7","e","5">>, <<"g","1","f","3">>, ANY>>,
      \* stalemate in ten moves: 1.e3 a5 2.Qh5 Ra6 3.Qxa5 h5 4.h4 Rah6 5.Qxc7 f6
      \* 6.Qxd7+ Kf7 7.Qxb7 Qd3 8.Qxb8 Qh7 9.Qxc8 Kg6 10.Qe6
      <<<<"e","2","e","3">>, <<"a","7","a","5">>, <<"d","1","h","5">>,
        <<"a","8","a","6">>, <<"h","5","a","5">>, <<"h","7","h","5">>,
        <<"h","2","h","4">>, <<"a","6","h","6">>, <<"a","5","c","7">>,
        <<"f","7","f","6">>, <<"c","7","d","7">>, <<"e","8","f","7">>,
        <<"d","7","b","7">>, <<"d","8","d","3">>, <<"b","7","b","8">>,
        <<"d","3","h","7">>, <<"b","8","c","8">>, <<"f","7","g","6">>,
        <<"c","8","e","6">>>>,
      \* taking back with nothing to take back, a line that names no legal
      \* move, a line that is no move at all, and leaving
      <<UNDO, <<"e","2","e","5">>, <<"e","2","e","4">>, <<"x","9">>, UNDO, UNDO,
        ANY, QUIT>> }

-----------------------------------------------------------------------------
(* Board.material_balance and Board.evaluate.  A score is material + noise *)
(* with material a whole number and noise the number random.uniform(-0.1,  *)
(* 0.1) returned, in tenths (-1, 0 or 1 here): scores compare by material  *)
(* first and by noise among equal materials.                               *)

PieceValue(p) ==
    CASE upper(p) = "P" -> 1
      [] upper(p) = "N" -> 3
      [] upper(p) = "B" -> 3
      [] upper(p) = "R" -> 5
      [] upper(p) = "Q" -> 9
      [] OTHER -> 0

SquareValue(p) ==
    IF p = "." THEN 0 ELSE IF isupper(p) THEN PieceValue(p) ELSE 0 - PieceValue(p)

RECURSIVE MaterialRange(_, _, _)
MaterialRange(b, lo, hi) ==
    IF lo = hi THEN SquareValue(b[lo \div 8][lo % 8])
    ELSE MaterialRange(b, lo, (lo + hi) \div 2)
         + MaterialRange(b, ((lo + hi) \div 2) + 1, hi)

MaterialBalance(s) == MaterialRange(s.board, 0, 63)

Score(material, noise) == [material |-> material, noise |-> noise]
Evaluate(s, noise) == Score(MaterialBalance(s), noise)

\* the 1e9 of minimax and of its call
Inf == 1000000000

\* A variant in which the perturbation outweighs material.
GreaterNoiseFirst(a, b) ==
    \/ a.noise > b.noise
    \/ a.noise = b.noise /\ a.material > b.material

Greater(a, b) ==
    \/ a.material > b.material
    \/ a.material = b.material /\ a.noise > b.noise
Less(a, b) == Greater(b, a)
LessEq(a, b) == ~Greater(a, b)
max(a, b) == IF Greater(b, a) THEN b ELSE a
min(a, b) == IF Less(b, a) THEN b ELSE a

\* the numbers random.uniform may hand out, whichever the seed
NoiseTapes == {<<0>>, <<1, -1, 0>>}

\* what minimax returns: the score, and the move in a list of one (empty for
\* None)
NoResult == [val |-> Score(0, 0), move |-> << >>]

aiVars == <<depth, frames, rolls, tape, at_call, result, cuts>>

-----------------------------------------------------------------------------
(* 'ai N': inp.split()[1] and int() *)

DIGITS == <<"0", "1", "2", "3", "4", "5", "6", "7", "8", "9">>

\* str.split(): the words of s between runs of blanks, word being the one
\* under way
RECURSIVE SplitFrom(_, _, _)
SplitFrom(s, i, word) ==
    IF i > Len(s) THEN (IF word = << >> THEN << >> ELSE <<word>>)
    ELSE IF s[i] = " "
         THEN (IF word = << >> THEN << >> ELSE <<word>>) \o SplitFrom(s, i + 1, << >>)
         ELSE SplitFrom(s, i + 1, Append(word, s[i]))

Split(s) == SplitFrom(s, 1, << >>)

RECURSIVE DigitsValue(_, _)
DigitsValue(w, n) ==
    IF n = 0 THEN 0 ELSE 10 * DigitsValue(w, n - 1) + Index(DIGITS, w[n])

\* int(w): for a word of decimal digits with an optional sign; ok is FALSE
\* where int raises ValueError
int(w) ==
    LET signed == w # << >> /\ w[1] \in {"-", "+"}
        digits == IF signed THEN Tail(w) ELSE w
    IN  IF digits = << >> \/ \E i \in 1..Len(digits) : Index(DIGITS, digits[i]) < 0
        THEN [ok |-> FALSE, val |-> 0]
        ELSE [ok |-> TRUE,
              val |-> IF signed /\ w[1] = "-"
                      THEN 0 - DigitsValue(digits, Len(digits))
                      ELSE DigitsValue(digits, Len(digits))]

startswith(s, prefix) ==
    /\ Len(s) >= Len(prefix)
    /\ SubSeq(s, 1, Len(prefix)) = prefix

\* the depth 'ai N' sets; ok is FALSE where the line prints 'Bad depth'
TypedDepth(inp) ==
    IF Len(Split(inp)) < 2 THEN [ok |-> FALSE, val |-> 0]
    ELSE int(Split(inp)[2])

-----------------------------------------------------------------------------
(* human_vs_human: b = Board(), then the while loop.  A line is what      *)
(* input().strip() hands over.  parse_uci_move calls all_moves() on the    *)
(* Board the top of the loop left behind, where it lists the same moves as *)
(* the call made there: legal is that list.                                *)

Init ==
    /\ board = NewBoard.board
    /\ white_to_move = NewBoard.white_to_move
    /\ castling_rights = NewBoard.castling_rights
    /\ en_passant_target = NewBoard.en_passant_target
    /\ halfmove_clock = NewBoard.halfmove_clock
    /\ fullmove_number = NewBoard.fullmove_number
    /\ move_stack = NewBoard.move_stack
    /\ pc = "top"
    /\ script \in Games
    /\ raised = None
    /\ legal = << >>
    /\ last = "Board()"
    /\ depth = None
    /\ frames = << >>
    /\ rolls = 0
    /\ tape = <<0>>
    /\ at_call = NewBoard
    /\ result = NoResult
    /\ cuts = 0

\* the top of the loop: print_board, is_checkmate, is_stalemate.  cm and sm
\* are the answers of the two calls; sm is asked only where cm is no.
HvH_Tested(cm, sm) ==
    IF cm.err \/ (~cm.val /\ sm.err)
    THEN /\ pc' = "crashed"
         /\ raised' = "RecursionError"
         /\ SetSelf(IF cm.err THEN cm.state ELSE sm.state)
         /\ legal' = << >>
         /\ last' = "raise"
    ELSE IF cm.val
    THEN /\ pc' = "over"
         /\ SetSelf(cm.state)
         /\ legal' = cm.listed
         /\ last' = "checkmate"
         /\ UNCHANGED raised
    ELSE IF sm.val
    THEN /\ pc' = "over"
         /\ SetSelf(sm.state)
         /\ legal' = sm.listed
         /\ last' = "stalemate"
         /\ UNCHANGED raised
    ELSE /\ pc' = "input"
         /\ SetSelf(sm.state)
         /\ legal' = (IF cm.called THEN cm.listed ELSE sm.listed)
         /\ last' = "prompt"
         /\ UNCHANGED raised

HvH_AfterCheckmate(cm) == HvH_Tested(cm, IsStalemate(cm.state))

HvH_Top ==
    /\ pc = "top"
    /\ HvH_AfterCheckmate(IsCheckmate(Self))
    /\ UNCHANGED <<script, aiVars>>

\* 'quit'
HvH_Quit ==
    /\ pc = "input" /\ script # << >> /\ Head(script) = QUIT
    /\ pc' = "over"
    /\ script' = Tail(script)
    /\ last' = "quit"
    /\ UNCHANGED <<boardVars, raised, legal, aiVars>>

\* 'undo': b.pop_move(); continue
HvH_Undo ==
    /\ pc = "input" /\ script # << >> /\ Head(script) = UNDO
    /\ SetSelf(PopMove(Self))
    /\ pc' = "top"
    /\ script' = Tail(script)
    /\ last' = (IF move_stack = << >> THEN "pop on empty" ELSE "pop")
    /\ UNCHANGED <<raised, legal, aiVars>>

\* a line parse_uci_move finds no legal move for: 'Illegal or bad format'
HvH_Illegal ==
    /\ pc = "input" /\ script # << >>
    /\ Head(script) \notin {QUIT, UNDO, ANY}
    /\ ParseUciMove(Head(script), white_to_move, legal) = 0
    /\ pc' = "top"
    /\ script' = Tail(script)
    /\ last' = "illegal"
    /\ UNCHANGED <<boardVars, raised, legal, aiVars>>

\* a line naming a legal move: b.push_move(m)
HvH_Move ==
    /\ pc = "input" /\ script # << >>
    /\ Head(script) \notin {QUIT, UNDO, ANY}
    /\ Len(move_stack) < MaxPly
    /\ LET i == ParseUciMove(Head(script), white_to_move, legal)
       IN  /\ i # 0
           /\ SetSelf(PushMove(Self, legal[i]))
    /\ pc' = "top"
    /\ script' = Tail(script)
    /\ last' = "push"
    /\ UNCHANGED <<raised, legal, aiVars>>

\* the same, for whichever legal move the line names
HvH_AnyMove ==
    /\ pc = "input" /\ script # << >> /\ Head(script) = ANY
    /\ Len(move_stack) < MaxPly
    /\ \E i \in 1..Len(legal) : SetSelf(PushMove(Self, legal[i]))
    /\ pc' = "top"
    /\ script' = Tail(script)
    /\ last' = "push"
    /\ UNCHANGED <<raised, legal, aiVars>>

Next ==
    \/ HvH_Top
    \/ HvH_Quit
    \/ HvH_Undo
    \/ HvH_Illegal
    \/ HvH_Move
    \/ HvH_AnyMove

vars ==
    <<board, white_to_move, castling_rights, en_passant_target, halfmove_clock,
      fullmove_number, move_stack, pc, script, raised, legal, last,
      depth, frames, rolls, tape, at_call, result, cuts>>

Spec == Init /\ [][Next]_vars

-----------------------------------------------------------------------------
(* minimax, one activation per frame.  at is "enter" before the terminal   *)
(* test, "loop" inside the for loop (i the place in moves of the move to   *)
(* try next, best_move the place of the best so far, 0 for None), "done"   *)
(* once a terminal node has its score.                                     *)

\* the deepest search the model runs
MaxDepth == 2

Frame(d, alpha, beta, maximizing) ==
    [depth |-> d, alpha |-> alpha, beta |-> beta, maximizing |-> maximizing,
     at |-> "enter", moves |-> << >>, i |-> 0, best_val |-> Score(0, 0),
     best_move |-> 0, broke |-> FALSE, val |-> Score(0, 0)]

Top == frames[Len(frames)]
SetTop(f) == [frames EXCEPT ![Len(frames)] = f]

Finished(f) ==
    \/ f.at = "done"
    \/ f.at = "loop" /\ (f.broke \/ f.i > Len(f.moves))

Returned(f) ==
    IF f.at = "done" THEN [val |-> f.val, move |-> << >>]
    ELSE [val |-> f.best_val,
          move |-> IF f.best_move = 0 THEN << >> ELSE <<f.moves[f.best_move]>>]

\* return board.evaluate(), None
MM_Terminal(f, s) ==
    /\ frames' = SetTop([f EXCEPT !.at = "done", !.val = Evaluate(s, tape[rolls + 1])])
    /\ rolls' = (rolls + 1) % Len(tape)
    /\ SetSelf(s)
    /\ UNCHANGED <<pc, raised>>

\* the start of the for loop; board.all_moves() is called on the Board
\* is_stalemate() left and returns the list that call listed
MM_Loop(f, s, moves) ==
    /\ frames' = SetTop([f EXCEPT !.at = "loop", !.moves = moves, !.i = 1,
                                  !.best_val = IF f.maximizing
                                               THEN Score(0 - Inf, 0)
                                               ELSE Score(Inf, 0)])
    /\ SetSelf(s)
    /\ UNCHANGED <<pc, raised, rolls>>

\* a RecursionError leaves every activation
MM_Raise(s) ==
    /\ pc' = "crashed"
    /\ raised' = "RecursionError"
    /\ frames' = << >>
    /\ SetSelf(s)
    /\ UNCHANGED rolls

\* A variant that goes one ply below depth 0.
MM_TestedBelowZero(f, cm, sm) ==
    IF f.depth < 0 THEN MM_Terminal(f, Self)
    ELSE IF cm.err THEN MM_Raise(cm.state)
    ELSE IF cm.val THEN MM_Terminal(f, cm.state)
    ELSE IF sm.err THEN MM_Raise(sm.state)
    ELSE IF sm.val THEN MM_Terminal(f, sm.state)
    ELSE MM_Loop(f, sm.state, IF cm.called THEN cm.listed ELSE sm.listed)

\* A variant for which a draw by the fifty-move rule ends the search too.
MM_TestedWithDraw(f, cm, sm) ==
    IF f.depth = 0 \/ DrawByFiftyMoveRule(Self) THEN MM_Terminal(f, Self)
    ELSE IF cm.err THEN MM_Raise(cm.state)
    ELSE IF cm.val THEN MM_Terminal(f, cm.state)
    ELSE IF sm.err THEN MM_Raise(sm.state)
    ELSE IF sm.val THEN MM_Terminal(f, sm.state)
    ELSE MM_Loop(f, sm.state, IF cm.called THEN cm.listed ELSE sm.listed)

MM_Tested(f, cm, sm) ==
    IF f.depth = 0 THEN MM_Terminal(f, Self)
    ELSE IF cm.err THEN MM_Raise(cm.state)
    ELSE IF cm.val THEN MM_Terminal(f, cm.state)
    ELSE IF sm.err THEN MM_Raise(sm.state)
    ELSE IF sm.val THEN MM_Terminal(f, sm.state)
    ELSE MM_Loop(f, sm.state, IF cm.called THEN cm.listed ELSE sm.listed)

MM_AfterCheckmate(f, cm) == MM_Tested(f, cm, IsStalemate(cm.state))

\* if depth == 0 or board.is_checkmate() or board.is_stalemate()
MM_Enter ==
    /\ pc = "search" /\ Top.at = "enter"
    /\ MM_AfterCheckmate(Top, IsCheckmate(Self))
    /\ UNCHANGED <<script, legal, last, depth, tape, at_call, result, cuts>>

\* board.push_move(m); minimax(board, depth-1, alpha, beta, not maximizing)
MM_Push ==
    /\ pc = "search" /\ Top.at = "loop" /\ ~Finished(Top)
    /\ SetSelf(PushMove(Self, Top.moves[Top.i]))
    /\ frames' = Append(frames,
                        Frame(Top.depth - 1, Top.alpha, Top.beta, ~Top.maximizing))
    /\ UNCHANGED <<pc, script, raised, legal, last, depth, rolls, tape, at_call,
                   result, cuts>>

\* the caller's loop body after the call, for the score val
\* A variant in which an equal score replaces the best so far.
AfterCallTies(f, val) ==
    IF f.maximizing
    THEN [f EXCEPT !.best_val = IF ~Less(val, f.best_val) THEN val ELSE @,
                   !.best_move = IF ~Less(val, f.best_val) THEN f.i ELSE @,
                   !.alpha = max(f.alpha, val),
                   !.broke = LessEq(f.beta, max(f.alpha, val)),
                   !.i = f.i + 1]
    ELSE [f EXCEPT !.best_val = IF ~Greater(val, f.best_val) THEN val ELSE @,
                   !.best_move = IF ~Greater(val, f.best_val) THEN f.i ELSE @,
                   !.beta = min(f.beta, val),
                   !.broke = LessEq(min(f.beta, val), f.alpha),
                   !.i = f.i + 1]

\* A variant that leaves the loop as soon as a score narrows the window.
AfterCallEager(f, val) ==
    IF f.maximizing
    THEN [f EXCEPT !.best_val = IF Greater(val, f.best_val) THEN val ELSE @,
                   !.best_move = IF Greater(val, f.best_val) THEN f.i ELSE @,
                   !.alpha = max(f.alpha, val),
                   !.broke = Greater(val, f.alpha),
                   !.i = f.i + 1]
    ELSE [f EXCEPT !.best_val = IF Less(val, f.best_val) THEN val ELSE @,
                   !.best_move = IF Less(val, f.best_val) THEN f.i ELSE @,
                   !.beta = min(f.beta, val),
                   !.broke = Less(val, f.beta),
                   !.i = f.i + 1]

AfterCall(f, val) ==
    IF f.maximizing
    THEN [f EXCEPT !.best_val = IF Greater(val, f.best_val) THEN val ELSE @,
                   !.best_move = IF Greater(val, f.best_val) THEN f.i ELSE @,
                   !.alpha = max(f.alpha, val),
                   !.broke = LessEq(f.beta, max(f.alpha, val)),
                   !.i = f.i + 1]
    ELSE [f EXCEPT !.best_val = IF Less(val, f.best_val) THEN val ELSE @,
                   !.best_move = IF Less(val, f.best_val) THEN f.i ELSE @,
                   !.beta = min(f.beta, val),
                   !.broke = LessEq(min(f.beta, val), f.alpha),
                   !.i = f.i + 1]

MM_Returned(caller) ==
    /\ frames' = Append(SubSeq(frames, 1, Len(frames) - 2), caller)
    /\ cuts' = IF caller.broke THEN cuts + 1 ELSE cuts

\* an inner call returns: board.pop_move() and the rest of the loop body
MM_Return ==
    /\ pc = "search" /\ Len(frames) >= 2 /\ Finished(Top)
    /\ SetSelf(PopMove(Self))
    /\ MM_Returned(AfterCall(frames[Len(frames) - 1], Returned(Top).val))
    /\ UNCHANGED <<pc, script, raised, legal, last, depth, rolls, tape, at_call,
                   result>>

\* the root call returns to human_vs_ai
MM_Root ==
    /\ pc = "search" /\ Len(frames) = 1 /\ Finished(Top)
    /\ result' = Returned(Top)
    /\ frames' = << >>
    /\ pc' = "chosen"
    /\ UNCHANGED <<boardVars, script, raised, legal, last, depth, rolls, tape,
                   at_call, cuts>>

-----------------------------------------------------------------------------
(* human_vs_ai *)

AI_1 == <<"a", "i", " ", "1">>
AI_2 == <<"a", "i", " ", "2">>

\* the games typed at human_vs_ai
\* White's knight goes g1-f3-g1 for n moves.
KnightShuffle(n) ==
    [i \in 1..n |-> IF i % 2 = 1 THEN <<"g","1","f","3">>
                    ELSE <<"f","3","g","1">>]

QuietMoves == 50

GamesAI ==
    { \* depth 1: 1.e4 2.Qh5 3.Qxf7+, the last two plies taken back
      <<AI_1, <<"e","2","e","4">>, <<"d","1","h","5">>, <<"h","5","f","7">>,
        UNDO, QUIT>>,
      \* depth 1: 1.e4 2.Qh5 3.Bc4 4.Qxf7
      <<AI_1, <<"e","2","e","4">>, <<"d","1","h","5">>, <<"f","1","c","4">>,
        <<"h","5","f","7">>>>,
      \* depth 2: 1.e4 2.d4
      <<AI_2, <<"e","2","e","4">>, <<"d","2","d","4">>, QUIT>>,
      \* depth 1: any first move
      <<AI_1, ANY>>,
      \* depth 0
      <<<<"a", "i", " ", "0">>, <<"e","2","e","4">>>>,
      \* depth 1, the last reply at depth 2: fifty moves of the knight, each
      \* answered by the search
      <<AI_1>> \o KnightShuffle(QuietMoves - 1) \o <<AI_2>>
          \o <<KnightShuffle(QuietMoves)[QuietMoves]>>,
      \* lines that set no depth, nothing to take back, a line that is no
      \* legal move, then a move at the depth the program starts with
      <<<<"a", "i", " ", "x">>, <<"a", "i">>, UNDO, <<"e","2","e","5">>,
        <<"e","2","e","4">>>> }

InitAI ==
    /\ board = NewBoard.board
    /\ white_to_move = NewBoard.white_to_move
    /\ castling_rights = NewBoard.castling_rights
    /\ en_passant_target = NewBoard.en_passant_target
    /\ halfmove_clock = NewBoard.halfmove_clock
    /\ fullmove_number = NewBoard.fullmove_number
    /\ move_stack = NewBoard.move_stack
    /\ pc = "top"
    /\ script \in GamesAI
    /\ raised = None
    /\ legal = << >>
    /\ last = "Board()"
    /\ depth = 3
    /\ frames = << >>
    /\ rolls = 0
    /\ tape \in NoiseTapes
    /\ at_call = NewBoard
    /\ result = NoResult
    /\ cuts = 0

AI_Tested(cm, sm) ==
    IF cm.err \/ (~cm.val /\ sm.err)
    THEN /\ pc' = "crashed"
         /\ raised' = "RecursionError"
         /\ SetSelf(IF cm.err THEN cm.state ELSE sm.state)
         /\ legal' = << >>
         /\ last' = "raise"
    ELSE IF cm.val
    THEN /\ pc' = "over"
         /\ SetSelf(cm.state)
         /\ legal' = cm.listed
         /\ last' = "checkmate"
         /\ UNCHANGED raised
    ELSE IF sm.val
    THEN /\ pc' = "over"
         /\ SetSelf(sm.state)
         /\ legal' = sm.listed
         /\ last' = "stalemate"
         /\ UNCHANGED raised
    ELSE IF DrawByFiftyMoveRule(sm.state)
    THEN /\ pc' = "over"
         /\ SetSelf(sm.state)
         /\ legal' = (IF cm.called THEN cm.listed ELSE sm.listed)
         /\ last' = "draw"
         /\ UNCHANGED raised
    ELSE /\ pc' = (IF sm.state.white_to_move THEN "input" ELSE "think")
         /\ SetSelf(sm.state)
         /\ legal' = (IF cm.called THEN cm.listed ELSE sm.listed)
         /\ last' = "prompt"
         /\ UNCHANGED raised

AI_AfterCheckmate(cm) == AI_Tested(cm, IsStalemate(cm.state))

\* the top of the loop
AI_Top ==
    /\ pc = "top"
    /\ AI_AfterCheckmate(IsCheckmate(Self))
    /\ UNCHANGED <<script, aiVars>>

AI_Quit ==
    /\ pc = "input" /\ script # << >> /\ Head(script) = QUIT
    /\ pc' = "over"
    /\ script' = Tail(script)
    /\ last' = "quit"
    /\ UNCHANGED <<boardVars, raised, legal, aiVars>>

\* 'undo': b.pop_move(); b.pop_move(); continue
AI_Undo ==
    /\ pc = "input" /\ script # << >> /\ Head(script) = UNDO
    /\ SetSelf(PopMove(PopMove(Self)))
    /\ pc' = "top"
    /\ script' = Tail(script)
    /\ last' = (IF Len(move_stack) < 2 THEN "pop on empty" ELSE "pop")
    /\ UNCHANGED <<raised, legal, aiVars>>

\* 'ai N'
AI_Depth ==
    /\ pc = "input" /\ script # << >>
    /\ Head(script) \notin {QUIT, UNDO, ANY}
    /\ startswith(Head(script), <<"a", "i">>)
    /\ depth' = (IF TypedDepth(Head(script)).ok THEN TypedDepth(Head(script)).val
                 ELSE depth)
    /\ pc' = "top"
    /\ script' = Tail(script)
    /\ last' = (IF TypedDepth(Head(script)).ok THEN "depth" ELSE "bad depth")
    /\ UNCHANGED <<boardVars, raised, legal, frames, rolls, tape, at_call, result,
                   cuts>>

AI_Illegal ==
    /\ pc = "input" /\ script # << >>
    /\ Head(script) \notin {QUIT, UNDO, ANY}
    /\ ~startswith(Head(script), <<"a", "i">>)
    /\ ParseUciMove(Head(script), white_to_move, legal) = 0
    /\ pc' = "top"
    /\ script' = Tail(script)
    /\ last' = "illegal"
    /\ UNCHANGED <<boardVars, raised, legal, aiVars>>

AI_Move ==
    /\ pc = "input" /\ script # << >>
    /\ Head(script) \notin {QUIT, UNDO, ANY}
    /\ ~startswith(Head(script), <<"a", "i">>)
    /\ Len(move_stack) < MaxPly
    /\ LET i == ParseUciMove(Head(script), white_to_move, legal)
       IN  /\ i # 0
           /\ SetSelf(PushMove(Self, legal[i]))
    /\ pc' = "top"
    /\ script' = Tail(script)
    /\ last' = "push"
    /\ UNCHANGED <<raised, legal, aiVars>>

AI_AnyMove ==
    /\ pc = "input" /\ script # << >> /\ Head(script) = ANY
    /\ Len(move_stack) < MaxPly
    /\ \E i \in 1..Len(legal) : SetSelf(PushMove(Self, legal[i]))
    /\ pc' = "top"
    /\ script' = Tail(script)
    /\ last' = "push"
    /\ UNCHANGED <<raised, legal, aiVars>>

\* val, m = minimax(b, depth, -1e9, 1e9, True)
AI_Think ==
    /\ pc = "think"
    /\ depth \in 0..MaxDepth
    /\ frames' = <<Frame(depth, Score(0 - Inf, 0), Score(Inf, 0), TRUE)>>
    /\ at_call' = Self
    /\ cuts' = 0
    /\ pc' = "search"
    /\ last' = "minimax"
    /\ UNCHANGED <<boardVars, script, raised, legal, depth, rolls, tape, result>>

\* if m is None: break; else b.push_move(m)
AI_Play ==
    /\ pc = "chosen"
    /\ IF result.move = << >>
       THEN /\ pc' = "over"
            /\ last' = "no move"
            /\ UNCHANGED boardVars
       ELSE /\ Len(move_stack) < MaxPly
            /\ SetSelf(PushMove(Self, result.move[1]))
            /\ pc' = "top"
            /\ last' = "push"
    /\ UNCHANGED <<script, raised, legal, aiVars>>

NextAI ==
    \/ AI_Top
    \/ AI_Quit
    \/ AI_Undo
    \/ AI_Depth
    \/ AI_Illegal
    \/ AI_Move
    \/ AI_AnyMove
    \/ AI_Think
    \/ MM_Enter
    \/ MM_Push
    \/ MM_Return
    \/ MM_Root
    \/ AI_Play

SpecAI == InitAI /\ [][NextAI]_vars

-----------------------------------------------------------------------------
(* minimax called as human_vs_ai calls it, minimax(b, depth, -1e9, 1e9,    *)
(* True), on a Board reached by pushing typed moves, at either side's turn *)

\* b.push_move(parse_uci_move(typed, b)), for the list a that b.all_moves()
\* returned inside parse_uci_move
PlayListed(a, typed) ==
    IF a.err THEN Crashed(a.state)
    ELSE Done(<< >>,
              PushMove(a.state,
                       a.val[ParseUciMove(typed, a.state.white_to_move, a.val)]))

PlayOne(s, typed) == PlayListed(AllMoves(s), typed)

RECURSIVE PlayRange(_, _, _, _)

PlayRest(first, lines, lo, hi) ==
    IF first.err THEN first ELSE PlayRange(first.state, lines, lo, hi)

PlayRange(s, lines, lo, hi) ==
    IF lo > hi THEN Done(<< >>, s)
    ELSE IF lo = hi THEN PlayOne(s, lines[lo])
    ELSE PlayRest(PlayRange(s, lines, lo, (lo + hi) \div 2),
                  lines, (lo + hi) \div 2 + 1, hi)

Played(lines) == PlayRange(NewBoard, lines, 1, Len(lines)).state

\* both sides' knights go out and back for n plies
KnightsOutAndBack(n) ==
    [i \in 1..n |-> CASE i % 4 = 1 -> <<"g","1","f","3">>
                      [] i % 4 = 2 -> <<"g","8","f","6">>
                      [] i % 4 = 3 -> <<"f","3","g","1">>
                      [] OTHER -> <<"f","6","g","8">>]

Searches ==
    { \* 1.e4 d5: one capture, exd5
      [line |-> <<<<"e","2","e","4">>, <<"d","7","d","5">>>>, depth |-> 1],
      \* 1.e4 d5 2.Qg4 a6: Qxc8 wins a bishop, three captures win a pawn
      [line |-> <<<<"e","2","e","4">>, <<"d","7","d","5">>,
                  <<"d","1","g","4">>, <<"a","7","a","6">>>>, depth |-> 1],
      \* 1.e4 d5 2.Nc3 a6: three captures win a pawn each
      [line |-> <<<<"e","2","e","4">>, <<"d","7","d","5">>,
                  <<"b","1","c","3">>, <<"a","7","a","6">>>>, depth |-> 1],
      \* 1.f3 e5 2.g4, Black to move: Qh4 mates
      [line |-> <<<<"f","2","f","3">>, <<"e","7","e","5">>,
                  <<"g","2","g","4">>>>, depth |-> 2],
      \* 1.f3 e5 2.g4 Qh4#
      [line |-> <<<<"f","2","f","3">>, <<"e","7","e","5">>,
                  <<"g","2","g","4">>, <<"d","8","h","4">>>>, depth |-> 1],
      \* the stalemate in ten moves
      [line |-> <<<<"e","2","e","3">>, <<"a","7","a","5">>, <<"d","1","h","5">>,
                  <<"a","8","a","6">>, <<"h","5","a","5">>, <<"h","7","h","5">>,
                  <<"h","2","h","4">>, <<"a","6","h","6">>, <<"a","5","c","7">>,
                  <<"f","7","f","6">>, <<"c","7","d","7">>, <<"e","8","f","7">>,
                  <<"d","7","b","7">>, <<"d","8","d","3">>, <<"b","7","b","8">>,
                  <<"d","3","h","7">>, <<"b","8","c","8">>, <<"f","7","g","6">>,
                  <<"c","8","e","6">>>>, depth |-> 2],
      \* 1.Nf3 h6 2.Ne5 h5 3.Nc6, Black to move: the first move listed, Nxc6,
      \* is a capture
      [line |-> <<<<"g","1","f","3">>, <<"h","7","h","6">>, <<"f","3","e","5">>,
                  <<"h","6","h","5">>, <<"e","5","c","6">>>>, depth |-> 1],
      [line |-> <<<<"g","1","f","3">>, <<"h","7","h","6">>, <<"f","3","e","5">>,
                  <<"h","6","h","5">>, <<"e","5","c","6">>>>, depth |-> 2],
      \* 1.Nf3 Nf6 2.g3 g6 3.Bg2, Black to move: both kings can castle by shape
      \* once the bishop leaves f8
      [line |-> <<<<"g","1","f","3">>, <<"g","8","f","6">>, <<"g","2","g","3">>,
                  <<"g","7","g","6">>, <<"f","1","g","2">>>>, depth |-> 1],
      \* 1.e4, depth 0
      [line |-> <<<<"e","2","e","4">>>>, depth |-> 0],
      \* a hundred plies without a pawn move or a capture
      [line |-> KnightsOutAndBack(2 * QuietMoves), depth |-> 1] }

SearchTapes == {<<0>>, <<1, -1, 0>>, <<-1, 1>>, <<1, -1>>}

InitSearchAt(s, d) ==
    /\ board = s.board
    /\ white_to_move = s.white_to_move
    /\ castling_rights = s.castling_rights
    /\ en_passant_target = s.en_passant_target
    /\ halfmove_clock = s.halfmove_clock
    /\ fullmove_number = s.fullmove_number
    /\ move_stack = s.move_stack
    /\ at_call = s
    /\ depth = d
    /\ frames = <<Frame(d, Score(0 - Inf, 0), Score(Inf, 0), TRUE)>>
    /\ pc = "search"
    /\ script = << >>
    /\ raised = None
    /\ legal = << >>
    /\ last = "minimax"
    /\ rolls = 0
    /\ tape \in SearchTapes
    /\ result = NoResult
    /\ cuts = 0

InitSearch == \E q \in Searches : InitSearchAt(Played(q.line), q.depth)

NextSearch ==
    \/ MM_Enter
    \/ MM_Push
    \/ MM_Return
    \/ MM_Root

SpecSearch == InitSearch /\ [][NextSearch]_vars

-----------------------------------------------------------------------------
(* Properties *)

Squares == {<<r, c>> : r \in 0..7, c \in 0..7}

\* the first piece met from (r, c), not counting it, along (dr, dc); "."
\* when the edge comes first
RECURSIVE FirstAlong(_, _, _, _, _)
FirstAlong(b, r, c, dr, dc) ==
    IF ~in_bounds(r + dr, c + dc) THEN "."
    ELSE IF b[r + dr][c + dc] # "." THEN b[r + dr][c + dc]
    ELSE FirstAlong(b, r + dr, c + dc, dr, dc)

Holds(b, r, c, p) == in_bounds(r, c) /\ b[r][c] = p
Mine(by_white, kind) == IF by_white THEN kind ELSE lower(kind)

\* a piece of colour by_white could capture on sq: a pawn diagonally in front
\* of it (whether or not sq is empty), a knight a jump away, a king next to
\* it, a bishop, rook or queen with a clear line to it
Attacks(b, sq, by_white) ==
    \/ \E dc \in {-1, 1} :
          Holds(b, sq[1] + (IF by_white THEN 1 ELSE -1), sq[2] + dc,
                Mine(by_white, "P"))
    \/ \E i \in 1..Len(KnightJumps) :
          Holds(b, sq[1] + KnightJumps[i][1], sq[2] + KnightJumps[i][2],
                Mine(by_white, "N"))
    \/ \E i \in 1..Len(KingSteps) :
          Holds(b, sq[1] + KingSteps[i][1], sq[2] + KingSteps[i][2],
                Mine(by_white, "K"))
    \/ \E i \in 1..Len(DiagonalVectors) :
          FirstAlong(b, sq[1], sq[2], DiagonalVectors[i][1], DiagonalVectors[i][2])
              \in {Mine(by_white, "B"), Mine(by_white, "Q")}
    \/ \E i \in 1..Len(StraightVectors) :
          FirstAlong(b, sq[1], sq[2], StraightVectors[i][1], StraightVectors[i][2])
              \in {Mine(by_white, "R"), Mine(by_white, "Q")}

\* after m the mover's own king is not attacked by the opponent
KingSafeAfter(s, m) ==
    LET after == PushMove(s, m).board
        king_sq == FindKing(after, IF s.white_to_move THEN "K" ELSE "k")
    IN  king_sq = NoSquare \/ ~Attacks(after, king_sq, ~s.white_to_move)

SafeOnes(s, candidates) ==
    LET Safe(m) == KingSafeAfter(s, m)
    IN  SelectSeq(candidates, Safe)

\* the top of the loop has just asked for the legal moves of the position
Asked == last \in {"prompt", "checkmate", "stalemate", "raise"}

\* C1: at every position of a game, for every move m that legal_moves lists
\* (captures, en passant, castling and promotions included), push(m) followed
\* by pop() leaves the grid, the side to move, the four castling rights, the
\* en-passant target, both clocks and the history stack as they were.
C1_PushPopRestores ==
    pc = "input" =>
        \A i \in 1..Len(legal) : PopMove(PushMove(Self, legal[i])) = Self

C1_Witness ==
    /\ pc = "input"
    /\ \E i \in 1..Len(legal) :
          /\ legal[i].en_passant
          /\ PushMove(Self, legal[i]) # Self
          /\ PopMove(PushMove(Self, legal[i])) = Self

\* C2: at every position, legal_moves returns, and what it returns is exactly
\* the pseudo-legal moves of the side to move after which the mover's own
\* king is not attacked by the opponent, no more and no fewer.
C2_LegalAreTheSafePseudoLegal ==
    Asked =>
        /\ raised = None
        /\ ~GeneratePseudoLegalMoves(Self, {}).err
        /\ legal = SafeOnes(Self, GeneratePseudoLegalMoves(Self, {}).val)

\* C3: legal_moves, in_check, attacks and best_move return at every position
\* of a game: the program never ends in the RecursionError that an endless
\* chain generation -> castling test -> in_check -> attacks -> generation
\* raises.
C3_CallsReturn == raised # "RecursionError"

\* the side to move may castle king side, by the rules: it holds the right,
\* the two squares between king and rook are empty, the king is not in
\* check, and neither the square it crosses nor the one it lands on is
\* attacked
KingsideEligible(s) ==
    LET r == IF s.white_to_move THEN 7 ELSE 0
    IN  /\ IF s.white_to_move THEN s.castling_rights.K ELSE s.castling_rights.k
        /\ s.board[r][5] = "."
        /\ s.board[r][6] = "."
        /\ ~Attacks(s.board, <<r, 4>>, ~s.white_to_move)
        /\ ~Attacks(s.board, <<r, 5>>, ~s.white_to_move)
        /\ ~Attacks(s.board, <<r, 6>>, ~s.white_to_move)

ListsKingsideCastling(moves) ==
    \E i \in 1..Len(moves) : moves[i].castling /\ moves[i].to_sq[2] = 6

\* C4: at every position, legal_moves lists the king-side castling move of
\* the side to move if and only if the right is held, the two squares between
\* king and rook are empty, the king is not in check and neither its transit
\* nor its destination square is attacked, a pawn attacking the squares
\* diagonally in front of it even while they are empty.
C4_KingsideCastlingIffEligible ==
    pc = "input" => (ListsKingsideCastling(legal) <=> KingsideEligible(Self))

\* C5: a pop on an empty history stack fails with EmptyHistory and leaves
\* every field of the Board as it was (with nothing pushed, as Board() made
\* it).
C5_PopOnEmptyFails ==
    last = "pop on empty" => (raised = "EmptyHistory" /\ Self = NewBoard)

NotListed(moves, m) == \A i \in 1..Len(moves) : moves[i] # m

PushLeavesAlone(s, moves) ==
    \A i \in 1..Len(moves) : PushMove(s, moves[i]) = s

\* C6: a push of a move that legal_moves does not list (here: of each
\* pseudo-legal move of the position that leaves the mover's king attacked)
\* is rejected and leaves grid, side to move, castling rights, en-passant
\* target, clocks and history stack unchanged.
C6_PushRejectsIllegal ==
    pc = "input" =>
        LET Illegal(m) == NotListed(legal, m)
        IN  PushLeavesAlone(Self,
                SelectSeq(GeneratePseudoLegalMoves(Self, {}).val, Illegal))

\* every attacks(s, sq, by_white) that returns, whatever sq, leaves
\* white_to_move as s has it; g is the generation the call asks for.  (Nothing
\* a call of _square_attacked runs assigns any other field of the Board.)
ScanRestores(s, g) ==
    \A sq \in Squares :
        \/ SquareAttackedScan(s, sq, s.white_to_move, g).err
        \/ SquareAttackedScan(s, sq, s.white_to_move, g).white_to_move
               = s.white_to_move

AttacksRestores(s, by_white, stk) ==
    ScanRestores(s, GeneratePseudoLegalMoves([s EXCEPT !.white_to_move = by_white], stk))

\* C7: at every position, a call attacks(state, square, by_colour) that
\* returns, for every square and either colour, on the early-return path as
\* on the fall-through path, leaves the side to move as it was before the
\* call; so does a nested call made while the generation of colour c is
\* under way, as the castling tests make them.
C7_AttacksRestoresSideToMove ==
    pc = "input" =>
        /\ \A by_white \in BOOLEAN : AttacksRestores(Self, by_white, {})
        /\ \A c \in BOOLEAN :
              AttacksRestores([Self EXCEPT !.white_to_move = c], ~c, {c})

Restored(s, a) == ~a.err /\ a.white_to_move = s.white_to_move

C7_Witness ==
    /\ pc = "input"
    /\ \E i \in 1..Len(legal) : legal[i].castling
    /\ \E sq \in Squares :
          /\ SquareAttacked(Self, sq, ~white_to_move, {}).val
          /\ Restored(Self, SquareAttacked(Self, sq, ~white_to_move, {}))
    /\ \E sq \in Squares :
          /\ ~SquareAttacked(Self, sq, ~white_to_move, {}).val
          /\ Restored(Self, SquareAttacked(Self, sq, ~white_to_move, {}))
    /\ \E sq \in Squares :
          Restored(Self, SquareAttacked(Self, sq, ~white_to_move, {white_to_move}))

Related(listed_none, in_check, checkmate, stalemate) ==
    /\ listed_none <=> (checkmate \/ stalemate)
    /\ checkmate <=> (listed_none /\ in_check)
    /\ stalemate <=> (listed_none /\ ~in_check)
    /\ ~(checkmate /\ stalemate)

\* C8: at every position legal_moves, in_check, checkmate and stalemate
\* answer, and: legal_moves is empty iff checkmate or stalemate; checkmate iff
\* legal_moves is empty and the side to move is in check; stalemate iff
\* legal_moves is empty and the side to move is not in check; never both.
C8_EmptyIffMateOrStalemate ==
    Asked =>
        /\ raised = None
        /\ ~IsCheckmate(Self).err
        /\ ~IsStalemate(Self).err
        /\ Related(legal = << >>, IsKingInCheck(Self, white_to_move, {}).val,
                   IsCheckmate(Self).val, IsStalemate(Self).val)

\* C9: when the call of minimax made by the game loop has returned, every
\* field of the Board (grid, side to move, castling rights, en-passant
\* target, clocks, history stack) is what it was at the call, also when the
\* search took 'beta <= alpha' breaks.
C9_SearchRestoresBoard == pc = "chosen" => Self = at_call

C9_Witness ==
    /\ pc = "chosen"
    /\ cuts > 0
    /\ result.move # << >>
    /\ Self = at_call

\* C10: at every node of the search, the root call of the game loop
\* included, the activation maximises exactly when White is the side to move
\* at that node.
C10_MaximisesExactlyForWhite ==
    pc = "search" => (Top.maximizing <=> white_to_move)

RightNames == {"K", "Q", "k", "q"}

NoRightGained(before, after) == \A n \in RightNames : after[n] => before[n]

TopRecord == move_stack[Len(move_stack)]

\* C11: a push never turns one of the four castling rights from false to
\* true, for the push the game loop makes and for the push of every listed
\* move; a right goes from false to true only in a pop, which installs the
\* rights recorded in the UndoRecord it removes.
C11_RightsOnlyFallOnPush ==
    [][/\ last' = "push" => NoRightGained(castling_rights, castling_rights')
       /\ pc = "input" =>
              \A i \in 1..Len(legal) :
                  NoRightGained(castling_rights,
                                PushMove(Self, legal[i]).castling_rights)
       /\ ~NoRightGained(castling_rights, castling_rights') =>
              /\ last' = "pop"
              /\ move_stack # << >>
              /\ castling_rights' = TopRecord[3]]_vars

\* A push made from a position in which a right was already lost.
C11_Witness ==
    /\ last = "push"
    /\ \E n \in RightNames : ~TopRecord[3][n] /\ ~castling_rights[n]
    /\ NoRightGained(TopRecord[3], castling_rights)

DoubleStep(m) ==
    upper(m.piece) = "P" /\ abs(m.to_sq[1] - m.from_sq[1]) = 2

PassedOver(m) == <<(m.from_sq[1] + m.to_sq[1]) \div 2, m.from_sq[2]>>

ExpectedTarget(m) == IF DoubleStep(m) THEN PassedOver(m) ELSE NoSquare

\* C12: after every push the en-passant target is the square the pawn
\* passed over when the move pushed was a pawn advancing two ranks, and is
\* empty for every other move, whatever the target was before the push; this
\* holds for the push the game loop makes and for the push of every listed
\* move.
C12_TargetIffDoubleStep ==
    /\ last = "push" => en_passant_target = ExpectedTarget(TopRecord[1])
    /\ pc = "input" =>
           \A i \in 1..Len(legal) :
               PushMove(Self, legal[i]).en_passant_target
                   = ExpectedTarget(legal[i])

\* A push that is not a double step, made while a target was set.
C12_Witness ==
    /\ last = "push"
    /\ TopRecord[4] # NoSquare
    /\ ~DoubleStep(TopRecord[1])
    /\ en_passant_target = NoSquare

\* a pawn move or a capture, read from the Move that was pushed
Resetting(m) == upper(m.piece) = "P" \/ m.capture # None \/ m.en_passant

Largest(S) == CHOOSE x \in S : \A y \in S : y <= x

\* the number of most recent consecutive records whose move was neither a
\* pawn move nor a capture
QuietRun(stack) ==
    Len(stack) - Largest({0} \cup {i \in 1..Len(stack) : Resetting(stack[i][1])})

FiftyMoves == 100

\* C13: push sets halfmove_clock to 0 for a pawn move or a capture
\* (en passant included) and adds exactly 1 otherwise; so in every state of a
\* game begun on a fresh board, inside the search too, halfmove_clock is the
\* number of most recent consecutive plies on the history stack that were
\* neither; draw_by_fifty_move_rule is true exactly when that number is at
\* least 100, and the game loop declares the draw only then.
C13_ClockCountsQuietPlies ==
    /\ halfmove_clock = QuietRun(move_stack)
    /\ DrawByFiftyMoveRule(Self) <=> QuietRun(move_stack) >= FiftyMoves
    /\ last = "draw" => QuietRun(move_stack) >= FiftyMoves
    /\ pc = "input" =>
           \A i \in 1..Len(legal) :
               PushMove(Self, legal[i]).halfmove_clock
                   = IF Resetting(legal[i]) THEN 0 ELSE halfmove_clock + 1

\* The game loop declares the draw after a hundred quiet plies.
C13_Witness ==
    /\ last = "draw"
    /\ DrawByFiftyMoveRule(Self)
    /\ halfmove_clock = FiftyMoves
    /\ Len(move_stack) = FiftyMoves

Count(b, p) == Cardinality({sq \in Squares : b[sq[1]][sq[2]] = p})

BothKings(b) == Count(b, "K") = 1 /\ Count(b, "k") = 1

\* C14: in every state of a game played from the standard start by pushing
\* listed moves and popping them, the board holds exactly one White king and
\* exactly one Black king; no listed move captures a king, and the board
\* after the push of any listed move still holds both.
C14_OneKingEach ==
    /\ raised = None => BothKings(board)
    /\ pc = "input" =>
           \A i \in 1..Len(legal) :
               /\ legal[i].capture \notin {"K", "k"}
               /\ BothKings(PushMove(Self, legal[i]).board)

\* A capture has just been pushed in a game in which a king was in check.
C14_Witness ==
    /\ last = "push"
    /\ TopRecord[1].capture # None
    /\ \E j \in 1..Len(move_stack) - 1 :
           move_stack[j][1].piece = "Q" /\ move_stack[j][1].to_sq = <<3, 7>>
    /\ BothKings(board)

\* the state after pushing, on a fresh board, the moves of the first n records
RECURSIVE Replay(_, _)
Replay(stack, n) ==
    IF n = 0 THEN NewBoard ELSE PushMove(Replay(stack, n - 1), stack[n][1])

RECURSIVE Pops(_, _)
Pops(s, k) == IF k = 0 THEN s ELSE Pops(PopMove(s), k - 1)

Front(stack) == SubSeq(stack, 1, Len(stack) - 1)

\* C15: a push adds exactly one UndoRecord on top of the history stack, a
\* pop on a non-empty stack removes exactly the topmost one, and no other
\* step of the game loop changes the stack, so its length is the number of
\* pushes not yet undone; the state is the one that pushing the recorded
\* moves on a fresh board gives, and for every k up to that number the state
\* after k pops is the state that held before the last k pushes.
C15_StackIsLifo ==
    [][/\ last' = "push" =>
              move_stack # move_stack' /\ Front(move_stack') = move_stack
       /\ last' = "pop" =>
              move_stack # << >> /\ move_stack' = Front(move_stack)
       /\ (last' \notin {"push", "pop"} /\ raised' = None) =>
              move_stack' = move_stack
       /\ raised' = None =>
              \A k \in 0..Len(move_stack') :
                  /\ Pops(Self', k) = Replay(move_stack', Len(move_stack') - k)
                  /\ Len(Pops(Self', k).move_stack) = Len(move_stack') - k]_vars

\* Nine pushes, then two pops.
C15_Witness ==
    /\ last = "pop"
    /\ Len(move_stack) = 7
    /\ script = << >>
    /\ Pops(Self, 3) = Replay(move_stack, 4)

\* the number random.uniform handed to the latest evaluate()
LatestNoise == tape[IF rolls = 0 THEN Len(tape) ELSE rolls]

\* the pushes of the activations below the top one are the only ones the
\* search has on the history stack
NoPushOfTop == Len(move_stack) = Len(at_call.move_stack) + Len(frames) - 1

\* the top activation has passed the test of its first line and has not yet
\* made a call
PastTest ==
    /\ pc = "search"
    /\ \/ Top.at = "done"
       \/ Top.at = "loop" /\ Top.i = 1

\* C16: an activation of minimax returns at once, with (evaluate(), None)
\* and without having pushed a move, exactly when its depth is 0 or the
\* position is checkmate or stalemate; so a position that is only a draw by
\* the fifty-move rule is searched like any other.
C16_TerminalIffDepthOrMate ==
    PastTest =>
        /\ Top.at = "done" <=>
               (Top.depth = 0 \/ IsCheckmate(Self).val \/ IsStalemate(Self).val)
        /\ Top.at = "done" =>
               /\ Returned(Top)
                     = [val |-> Evaluate(Self, LatestNoise), move |-> << >>]
               /\ NoPushOfTop

\* Inside a search of depth 2, a reply that mates: the activation for it has
\* depth 1 and returns at once.
C16_Witness ==
    /\ pc = "search"
    /\ Len(frames) = 2
    /\ Top.at = "done"
    /\ Top.depth = 1
    /\ IsCheckmate(Self).val
    /\ Returned(Top).move = << >>
    /\ NoPushOfTop

\* A position that is a draw by the fifty-move rule and nothing else, being
\* searched.
C16_DrawIsSearched ==
    /\ pc = "search"
    /\ Top.at = "loop"
    /\ Top.depth = 1
    /\ DrawByFiftyMoveRule(Self)

\* what the move m adds to the material balance
Gain(s, m) == MaterialBalance(PushMove(s, m)) - MaterialBalance(s)

\* the places in moves of a capture that improves the material balance and
\* improves it strictly more than every other move of the list: none or one
BestCapture(s, moves) ==
    {i \in 1..Len(moves) :
        /\ moves[i].capture # None
        /\ Gain(s, moves[i]) > 0
        /\ \A j \in 1..Len(moves) \ {i} : Gain(s, moves[i]) > Gain(s, moves[j])}

ReturnsBestCapture(s, moves) ==
    \A i \in BestCapture(s, moves) : result.move = <<moves[i]>>

\* the call minimax(b, 1, -1e9, 1e9, True) made with White to move has
\* returned
ChosenAtDepthOne == pc = "chosen" /\ depth = 1 /\ at_call.white_to_move

\* C17: when minimax, maximising at depth 1 with White to move, has
\* returned, and one listed move is a capture that improves the material
\* balance strictly more than every other listed move, the move returned is
\* that capture, whichever numbers random.uniform gave.
C17_DepthOneTakesBestCapture ==
    ChosenAtDepthOne => ReturnsBestCapture(at_call, AllMoves(at_call).val)

\* The capture is returned although its score was perturbed downwards and
\* scores of other moves upwards.
C17_Witness ==
    /\ ChosenAtDepthOne
    /\ BestCapture(at_call, AllMoves(at_call).val) # {}
    /\ result.move # << >>
    /\ result.move[1].capture = "b"
    /\ result.val.noise = -1
    /\ tape = <<1, -1>>
    /\ ReturnsBestCapture(at_call, AllMoves(at_call).val)

MovesOf(moves, p) == {i \in 1..Len(moves) : moves[i].piece = p}

\* C18: at the standard initial position all_moves() returns 20 moves, no
\* two alike: 16 of pawns and 4 of knights, none of them a castling move, a
\* capture (en passant included) or a promotion.
C18_TwentyMovesAtStart ==
    (pc = "input" /\ Self = NewBoard) =>
        /\ legal = AllMoves(NewBoard).val
        /\ Len(legal) = 20
        /\ Cardinality({legal[i] : i \in 1..Len(legal)}) = 20
        /\ Cardinality(MovesOf(legal, "P")) = 16
        /\ Cardinality(MovesOf(legal, "N")) = 4
        /\ \A i \in 1..Len(legal) :
               /\ ~legal[i].castling
               /\ ~legal[i].en_passant
               /\ legal[i].capture = None
               /\ legal[i].promotion = None

\* The prompt of the first move.
C18_Witness ==
    /\ pc = "input"
    /\ Self = NewBoard
    /\ last = "prompt"
    /\ Len(legal) = 20

\* the moves pushed and not undone are the typed ones, in order
PlayedLine(lines) ==
    /\ Len(move_stack) = Len(lines)
    /\ \A i \in 1..Len(lines) :
           /\ move_stack[i][1].from_sq = ParseSquare(Slice(lines[i], 0, 2))
           /\ move_stack[i][1].to_sq = ParseSquare(Slice(lines[i], 2, 4))

EnemyPawn(p) == IF isupper(p) THEN "p" ELSE "P"

\* s2 is s after the push of the en-passant move m
EnPassantDone(s, m, s2) ==
    /\ upper(m.piece) = "P"
    /\ m.to_sq = s.en_passant_target
    /\ s.board[m.from_sq[1]][m.to_sq[2]] = EnemyPawn(m.piece)
    /\ s2.board[m.from_sq[1]][m.to_sq[2]] = "."
    /\ s2.board[m.to_sq[1]][m.to_sq[2]] = m.piece
    /\ s2.board[m.from_sq[1]][m.from_sq[2]] = "."

\* C19: after 1.e4 Nc6 2.e5 d5 the en-passant capture e5xd6 is among the
\* moves all_moves() returns; and the push of any listed en-passant move
\* empties the square of the captured pawn (the capturing pawn's rank, the
\* destination's file), which held a pawn of the other colour, and puts the
\* capturing pawn on the en-passant target, so that neither square holds a
\* pawn of the captured colour.
C19_EnPassantListedAndCaptures ==
    /\ (pc = "input"
          /\ PlayedLine(<<<<"e","2","e","4">>, <<"b","8","c","6">>,
                          <<"e","4","e","5">>, <<"d","7","d","5">>>>)) =>
           \E i \in 1..Len(legal) :
               /\ legal[i].en_passant
               /\ legal[i].from_sq = <<3, 4>>
               /\ legal[i].to_sq = <<2, 3>>
    /\ pc = "input" =>
           \A i \in 1..Len(legal) :
               legal[i].en_passant =>
                   EnPassantDone(Self, legal[i], PushMove(Self, legal[i]))
    /\ (last = "push" /\ TopRecord[1].en_passant) =>
           /\ TopRecord[2] = EnemyPawn(TopRecord[1].piece)
           /\ board[TopRecord[1].from_sq[1]][TopRecord[1].to_sq[2]] = "."
           /\ board[TopRecord[1].to_sq[1]][TopRecord[1].to_sq[2]]
                 = TopRecord[1].piece
           /\ TopRecord[1].to_sq = TopRecord[4]

\* 3.exd6 has been pushed: d5 is empty and a white pawn stands on d6.
C19_Witness ==
    /\ last = "push"
    /\ TopRecord[1].en_passant
    /\ TopRecord[1].from_sq = <<3, 4>>
    /\ board[3][3] = "."
    /\ board[2][3] = "P"
    /\ Count(board, "p") = 7

\* the game loop has tested the position after 1.e4 e5 2.Nf3
AfterNf3 ==
    /\ pc # "top"
    /\ PlayedLine(<<<<"e","2","e","4">>, <<"e","7","e","5">>,
                    <<"g","1","f","3">>>>)

NoMateNoStalemate ==
    /\ last = "prompt"
    /\ ~IsCheckmate(Self).err /\ ~IsCheckmate(Self).val
    /\ ~IsStalemate(Self).err /\ ~IsStalemate(Self).val

\* C20 as stated: after 1.e4 e5 2.Nf3 the position is neither checkmate nor
\* stalemate, White is the side to move, and all_moves() lists at least one
\* move.
C20_WhiteToMoveAfterNf3 ==
    AfterNf3 =>
        /\ NoMateNoStalemate
        /\ white_to_move
        /\ Len(legal) > 0

\* C20, amended: after 1.e4 e5 2.Nf3 the position is neither checkmate nor
\* stalemate, Black is the side to move (three plies have been pushed and
\* each push flips the side), and all_moves() lists at least one move: the
\* 29 moves Black has.
C20_BlackToMoveAfterNf3 ==
    AfterNf3 =>
        /\ NoMateNoStalemate
        /\ ~white_to_move
        /\ fullmove_number = 2
        /\ legal = AllMoves(Self).val
        /\ Len(legal) = 29
        /\ \A i \in 1..Len(legal) : ~isupper(legal[i].piece)

\* The prompt after 2.Nf3.
C20_Witness ==
    /\ AfterNf3
    /\ pc = "input"
    /\ ~white_to_move
    /\ Len(legal) > 0
    /\ board[5][5] = "N"

\* the records of the moves of Black's pieces
BlackPlies(stack) == {i \in 1..Len(stack) : ~isupper(stack[i][1].piece)}

OneIf(cond) == IF cond THEN 1 ELSE 0

\* C21: push adds 1 to fullmove_number exactly when the move pushed is
\* Black's, and pop takes 1 off exactly when the move undone is Black's; so
\* in every state of a game begun on a fresh board fullmove_number is 1 plus
\* the number of Black's moves on the history stack.
C21_FullmoveCountsBlackPlies ==
    /\ fullmove_number = 1 + Cardinality(BlackPlies(move_stack))
    /\ pc = "input" =>
           \A i \in 1..Len(legal) :
               PushMove(Self, legal[i]).fullmove_number
                   = fullmove_number + OneIf(~isupper(legal[i].piece))
    /\ move_stack # << >> =>
           PopMove(Self).fullmove_number
               = fullmove_number - OneIf(~isupper(TopRecord[1].piece))

\* A move of White has been taken back after Black had moved.
C21_Witness ==
    /\ last = "pop"
    /\ white_to_move
    /\ fullmove_number > 1
    /\ fullmove_number = 1 + Cardinality(BlackPlies(move_stack))

\* the original corner of the rook of the right n, and its rook
Corner(n) ==
    CASE n = "K" -> <<7, 7>> [] n = "Q" -> <<7, 0>>
      [] n = "k" -> <<0, 7>> [] n = "q" -> <<0, 0>>

RookOf(n) == IF n \in {"K", "Q"} THEN "R" ELSE "r"
KingOf(n) == IF n \in {"K", "Q"} THEN "K" ELSE "k"

\* the rights the move m is to clear
Cleared(m) ==
    {n \in RightNames :
        \/ m.piece = KingOf(n)
        \/ m.piece = RookOf(n) /\ m.from_sq = Corner(n)
        \/ m.capture = RookOf(n) /\ m.to_sq = Corner(n)}

RightsAfter(cr, m) == [n \in RightNames |-> cr[n] /\ n \notin Cleared(m)]

SameRights(cr, f) == \A n \in RightNames : cr[n] = f[n]

\* C22: the push of a legal move clears both rights of the mover when a
\* king moves, the mover's right of the side of the corner when a rook
\* leaves its own original corner, the opponent's right of the side of the
\* corner when the opponent's rook is captured on its original corner, and
\* leaves every other right as it was; for the push of every listed move and
\* for the push the game loop makes.
C22_PushClearsExactlyTheseRights ==
    /\ pc = "input" =>
           \A i \in 1..Len(legal) :
               SameRights(PushMove(Self, legal[i]).castling_rights,
                          RightsAfter(castling_rights, legal[i]))
    /\ last = "push" =>
           SameRights(castling_rights, RightsAfter(TopRecord[3], TopRecord[1]))

\* A rook has been captured on h8: Black's king-side right is gone, the
\* other three are held.
C22_Witness ==
    /\ last = "push"
    /\ TopRecord[1].capture = "r"
    /\ TopRecord[1].to_sq = <<0, 7>>
    /\ TopRecord[3].k
    /\ ~castling_rights.k
    /\ castling_rights.q /\ castling_rights.K /\ castling_rights.Q

HomeSquare(n) == <<Corner(n)[1], 4>>

At(b, sq) == b[sq[1]][sq[2]]

\* every right held in cr has its king and its rook at home on b
RightsHaveKingAndRook(cr, b) ==
    \A n \in RightNames :
        cr[n] => /\ At(b, HomeSquare(n)) = KingOf(n)
                 /\ At(b, Corner(n)) = RookOf(n)

\* C23: in every state of a game played from the standard start by listed
\* moves and pops, and after the push of every listed move, each castling
\* right that is held has the king of its colour on the e-file of its home
\* rank and the rook of its colour on the corner of its side.
C23_RightImpliesKingAndRookHome ==
    /\ raised = None => RightsHaveKingAndRook(castling_rights, board)
    /\ pc = "input" =>
           \A i \in 1..Len(legal) :
               RightsHaveKingAndRook(PushMove(Self, legal[i]).castling_rights,
                                     PushMove(Self, legal[i]).board)

\* White has castled and Black has moved since; Black holds at least one
\* right.
C23_Witness ==
    /\ last = "push"
    /\ white_to_move
    /\ At(board, <<7, 6>>) = "K" /\ At(board, <<7, 5>>) = "R"
    /\ ~castling_rights.K /\ ~castling_rights.Q
    /\ castling_rights.k \/ castling_rights.q
    /\ RightsHaveKingAndRook(castling_rights, board)

\* the length of the history stack at the call of minimax by the game loop
AtCallLen == Len(at_call.move_stack)

WithinDepth(n) == AtCallLen <= n /\ n <= AtCallLen + depth

\* the history stack while all_moves() has the candidate m pushed
FilterStack(s, m) == PushMove(s, m).move_stack

\* all_moves() called at s keeps the stack within the bounds while it runs and
\* hands it back as it found it
FilterWithinDepth(s, candidates, a) ==
    /\ \A i \in 1..Len(candidates) :
           WithinDepth(Len(FilterStack(s, candidates[i])))
    /\ ~a.err
    /\ a.state.move_stack = s.move_stack

\* C24: from the call of minimax by the game loop to its return the
\* history stack never has fewer records than at the call nor more than
\* that number plus depth: at a node it has one record per activation below
\* it, and while all_moves() runs at a node (a node of depth 0 never calls
\* it) it has one more, for the candidate pushed.
C24_StackWithinDepth ==
    /\ pc = "search" =>
           /\ WithinDepth(Len(move_stack))
           /\ Len(move_stack) = AtCallLen + depth - Top.depth
           /\ Top.depth >= 0
           /\ (Top.at = "enter" /\ Top.depth >= 1) =>
                  FilterWithinDepth(Self, GeneratePseudoLegalMoves(Self, {}).val,
                                    AllMoves(Self))
    /\ pc = "chosen" => Len(move_stack) = AtCallLen

\* A node two plies below the root of a search of depth 2.
C24_Witness ==
    /\ pc = "search"
    /\ depth = 2
    /\ Len(frames) = 3
    /\ Top.depth = 0
    /\ Len(move_stack) = AtCallLen + 2

Smallest(S) == CHOOSE x \in S : \A y \in S : x <= y

\* the greatest (maximising) or least (minimising) of the values
Extreme(mx, vals) ==
    IF mx THEN Largest({vals[i] : i \in DOMAIN vals})
    ELSE Smallest({vals[i] : i \in DOMAIN vals})

\* the first place that holds v: the first strictly improving one when v is
\* the extreme
FirstAt(vals, v) ==
    CHOOSE i \in DOMAIN vals : vals[i] = v /\ \A j \in DOMAIN vals : j < i => vals[j] # v

\* minimax without the window and without the break, on material alone (an
\* evaluator whose random part is always 0)
RECURSIVE PlainValue(_, _, _)

PlainOver(s, d, mx, moves) ==
    IF moves = << >> THEN MaterialBalance(s)
    ELSE Extreme(mx, [i \in 1..Len(moves) |->
                        PlainValue(PushMove(s, moves[i]), d - 1, ~mx)])

PlainValue(s, d, mx) ==
    IF d = 0 THEN MaterialBalance(s) ELSE PlainOver(s, d, mx, AllMoves(s).val)

PlainPick(moves, vals) ==
    [val |-> Score(Extreme(TRUE, vals), 0),
     move |-> <<moves[FirstAt(vals, Extreme(TRUE, vals))]>>]

PlainRoot(s, d, moves) ==
    IF d = 0 \/ moves = << >>
    THEN [val |-> Score(MaterialBalance(s), 0), move |-> << >>]
    ELSE PlainPick(moves, [i \in 1..Len(moves) |->
                             PlainValue(PushMove(s, moves[i]), d - 1, FALSE)])

PlainResult(s, d) == PlainRoot(s, d, IF d = 0 THEN << >> ELSE AllMoves(s).val)

\* C25: with an evaluator that adds nothing random, the call
\* minimax(b, depth, -1e9, 1e9, True) returns the score and the move that
\* minimax without window and break returns when it goes through
\* all_moves() in the same order and keeps the first strictly better move.
C25_BreakKeepsRootResult ==
    (pc = "chosen" /\ tape = <<0>>) => result = PlainResult(at_call, depth)

\* A search of depth 2 that took breaks and whose first listed move is not
\* the one returned.
C25_Witness ==
    /\ pc = "chosen"
    /\ tape = <<0>>
    /\ depth = 2
    /\ cuts > 0
    /\ result.move # << >>
    /\ result.move[1].capture = None
    /\ At(at_call.board, <<2, 2>>) = "N"
    /\ result = PlainResult(at_call, depth)

\* the number random.uniform gave to the j-th of the n evaluations made so
\* far by the calls of an activation whose calls are all of depth 0
NoiseOf(j, n) ==
    tape[((rolls + (Len(tape) - 1) * n + j - 1) % Len(tape)) + 1]

\* the scores the calls made so far by the activation f of depth 1 at s
\* returned, one per move searched
SearchedScores(s, f) ==
    [j \in 1..(f.i - 1) |->
        Score(MaterialBalance(PushMove(s, f.moves[j])), NoiseOf(j, f.i - 1))]

Better(mx, a, b) == IF mx THEN Greater(a, b) ELSE Less(a, b)

\* the places whose score is strictly better than every score before and not
\* worse than any score after
EarliestBest(mx, sc) ==
    {k \in DOMAIN sc :
        /\ \A j \in DOMAIN sc : j < k => Better(mx, sc[k], sc[j])
        /\ \A j \in DOMAIN sc : j > k => ~Better(mx, sc[j], sc[k])}

KeepsEarliestBest(f, sc) ==
    /\ EarliestBest(f.maximizing, sc) = {f.best_move}
    /\ f.best_val = sc[f.best_move]

\* some score searched after the best one equals it
TieAfterBest(f, sc) ==
    \E j \in DOMAIN sc : j > f.best_move /\ sc[j] = sc[f.best_move]

\* the activation on top has depth 1 and has searched a move
SearchingLeaves ==
    /\ pc = "search"
    /\ Top.at = "loop"
    /\ Top.depth = 1
    /\ Top.i > 1

\* C26: in an activation whose calls return evaluations, maximising or
\* minimising, at every turn of the loop and so at its return (after a break
\* too), the best move is the earliest searched move whose score is strictly
\* better (greater when maximising, less when minimising) than every score
\* before it and not worse than any score searched after it, and the best
\* score is that move's score: an equal score later never replaces it.
C26_FirstStrictlyBetterIsKept ==
    SearchingLeaves => KeepsEarliestBest(Top, SearchedScores(Self, Top))

\* A minimising activation that has finished its loop, a later score being
\* equal to the best.
C26_Witness ==
    /\ SearchingLeaves
    /\ ~Top.maximizing
    /\ Finished(Top)
    /\ TieAfterBest(Top, SearchedScores(Self, Top))
    /\ KeepsEarliestBest(Top, SearchedScores(Self, Top))

\* The same in a maximising activation.
C26_MaximisingTie ==
    /\ SearchingLeaves
    /\ Top.maximizing
    /\ Finished(Top)
    /\ TieAfterBest(Top, SearchedScores(Self, Top))

\* the moves of the side to move at s by the rules, when the pseudo-legal
\* moves can be listed
RuleMoves(s, pseudo) == IF pseudo.err THEN << >> ELSE SafeOnes(s, pseudo.val)

\* s is neither checkmate nor stalemate
HasMove(s) == RuleMoves(s, GeneratePseudoLegalMoves(s, {})) # << >>

IsOneOf(m, moves) == \E i \in 1..Len(moves) : moves[i] = m

\* what a call that has come back hands over is a move, one of the moves of
\* its node
ReturnedMoveIsListed ==
    /\ (pc = "chosen" /\ depth >= 1 /\ HasMove(at_call)) =>
           /\ result.move # << >>
           /\ IsOneOf(result.move[1],
                      RuleMoves(at_call, GeneratePseudoLegalMoves(at_call, {})))
    /\ (pc = "search" /\ Finished(Top) /\ Top.depth >= 1 /\ HasMove(Self)) =>
           /\ Returned(Top).move # << >>
           /\ IsOneOf(Returned(Top).move[1],
                      RuleMoves(Self, GeneratePseudoLegalMoves(Self, {})))

\* an activation of depth 1 inside a search of depth 2 that has left its loop
\* by a break
InnerBreak ==
    /\ pc = "search"
    /\ Len(frames) = 2
    /\ Top.depth = 1
    /\ Top.at = "loop"
    /\ Top.broke
    /\ Top.i <= Len(Top.moves)

\* C27: for every position that is neither checkmate nor stalemate and every
\* depth >= 1 the search comes back, and the move it hands over is not None
\* and is one of the legal moves of its node, at the root and at every inner
\* node whatever window was passed down.
C27_SearchReturnsListedMove ==
    /\ (depth >= 1 /\ HasMove(at_call)) => pc # "crashed"
    /\ ReturnedMoveIsListed

\* Where the search comes back, the move is one of the node's moves; here an
\* inner node left by a break.
C27_ReturnedInnerBreak == InnerBreak /\ HasMove(Self) /\ ReturnedMoveIsListed

EvenStack == Len(move_stack) % 2 = 0

\* the most pops in a row tried from a position
MaxPops == 3

Parity(s) == s.white_to_move <=> (Len(s.move_stack) % 2 = 0)

\* 'undo' has just been obeyed
JustUndone == last \in {"pop", "pop on empty"}

\* C28: between calls, whatever pushes and pops were made since the fresh
\* board (by the typed moves, by the replies, by the search, by 'undo'), and
\* after up to MaxPops further pops (which run into the empty history near
\* the start), White is to move if and only if the history stack has an even
\* length; and after 'undo' at human_vs_ai, which pops twice, White is to
\* move.
C28_WhiteToMoveIffEvenStack ==
    /\ raised = None => \A k \in 0..MaxPops : Parity(Pops(Self, k))
    /\ JustUndone => white_to_move

\* 'undo' typed first, on the empty history.
C28_Witness ==
    /\ last = "pop on empty"
    /\ move_stack = << >>
    /\ white_to_move

\* 'undo' typed after a move and its reply.
C28_UndoneTwice ==
    /\ last = "pop"
    /\ white_to_move
    /\ EvenStack

LastRanks == {0, 7}

\* the places in moves of the pawn moves onto the last rank
OntoLastRank(moves) ==
    {i \in 1..Len(moves) :
        upper(moves[i].piece) = "P" /\ moves[i].to_sq[1] \in LastRanks}

\* the four kinds in the colour of the pawn p
KindsFor(p) ==
    {IF isupper(p) THEN PromoKinds[k] ELSE lower(PromoKinds[k]) : k \in 1..4}

\* the places in moves of the moves that go from and to the squares of m
SameSquares(moves, m) ==
    {j \in 1..Len(moves) :
        moves[j].from_sq = m.from_sq /\ moves[j].to_sq = m.to_sq}

\* the moves between the squares of m are four, one per kind
FourCandidates(moves, m) ==
    /\ Cardinality(SameSquares(moves, m)) = 4
    /\ \A kind \in KindsFor(m.piece) :
          \E j \in SameSquares(moves, m) : moves[j].promotion = kind
    /\ \A j \in SameSquares(moves, m) :
          /\ moves[j].promotion \in KindsFor(m.piece)
          /\ moves[j].piece = m.piece
          /\ moves[j].capture = m.capture

\* pushed is s after the push of the promotion m, popped what the pop leaves
PromotedAndBack(s, m, pushed, popped) ==
    /\ At(pushed.board, m.to_sq) = m.promotion
    /\ At(pushed.board, m.from_sq) = "."
    /\ At(popped.board, m.from_sq) = (IF s.white_to_move THEN "P" ELSE "p")
    /\ At(popped.board, m.to_sq) = At(s.board, m.to_sq)

PromotionsRight(s, moves) ==
    \A i \in OntoLastRank(moves) :
        /\ FourCandidates(moves, moves[i])
        /\ PromotedAndBack(s, moves[i], PushMove(s, moves[i]),
                           PopMove(PushMove(s, moves[i])))

\* the pawn moves generated for the pawns of the side to move, square by
\* square
PawnMovesAt(s, sq) ==
    IF At(s.board, sq) = (IF s.white_to_move THEN "P" ELSE "p")
    THEN PawnMoves(s, sq[1], sq[2], At(s.board, sq))
    ELSE << >>

\* C29: at every prompt, among the moves generated for each pawn of the side
\* to move and among the moves all_moves() lists, every pawn move onto the
\* last rank, by a step or by a capture, comes as exactly four candidates
\* between the same squares, one per kind Queen, Rook, Bishop, Knight in the
\* mover's colour, none without a promotion; pushing it leaves the promoted
\* piece on the destination, and popping it puts a pawn of the mover's colour
\* back on the source square and the destination as it was.
C29_PromotionsComeInFours ==
    pc = "input" =>
        /\ PromotionsRight(Self, legal)
        /\ \A sq \in Squares : PromotionsRight(Self, PawnMovesAt(Self, sq))

\* White's pawn on g7 may step to g8 and capture on f8 and on h8: twelve
\* candidates.
C29_Witness ==
    /\ pc = "input"
    /\ white_to_move
    /\ Cardinality(OntoLastRank(legal)) = 12
    /\ \E i \in OntoLastRank(legal) : legal[i].capture = None
    /\ \E i \in OntoLastRank(legal) : legal[i].capture # None
    /\ PromotionsRight(Self, legal)

\* Black's pawn on e2 has promotions too, and one has been pushed.
C29_BlackPromotes ==
    /\ pc = "input"
    /\ ~white_to_move
    /\ OntoLastRank(legal) # {}

\* A promotion is on top of the history stack.
C29_Promoted ==
    /\ move_stack # << >>
    /\ TopRecord[1].promotion # None

\* the row the pawns of p's colour stand on in the initial position
HomeRow(p) == IF isupper(p) THEN 6 ELSE 1

Forward(p) == IF isupper(p) THEN -1 ELSE 1

\* the square n rows ahead of the pawn p on sq
Ahead(sq, p, n) == <<sq[1] + n * Forward(p), sq[2]>>

\* moves holds a step of two squares by the pawn on sq
HasDoublePush(moves, sq, p) ==
    \E i \in 1..Len(moves) :
        /\ moves[i].from_sq = sq
        /\ moves[i].to_sq = Ahead(sq, p, 2)
        /\ moves[i].piece = p
        /\ moves[i].capture = None
        /\ moves[i].promotion = None
        /\ ~moves[i].en_passant
        /\ ~moves[i].castling

MayDoublePush(b, sq, p) ==
    /\ sq[1] = HomeRow(p)
    /\ At(b, Ahead(sq, p, 1)) = "."
    /\ At(b, Ahead(sq, p, 2)) = "."

Pawns(b) == {sq \in Squares : upper(At(b, sq)) = "P"}

\* among the moves generated for the pawn on sq, and among the moves
\* all_moves() listed when it is that pawn's turn
DoublePushRight(s, sq, p, generated, listed) ==
    /\ HasDoublePush(generated, sq, p) <=> MayDoublePush(s.board, sq, p)
    /\ HasDoublePush(listed, sq, p) =>
           /\ MayDoublePush(s.board, sq, p)
           /\ isupper(p) = s.white_to_move
    /\ \A i \in 1..Len(generated) :
           abs(generated[i].to_sq[1] - sq[1]) = 2 =>
               generated[i].to_sq = Ahead(sq, p, 2)

\* the pawn on sq stands on its home row behind an occupied square, the
\* square after that one being empty
BlockedNear(b, sq) ==
    /\ sq[1] = HomeRow(At(b, sq))
    /\ At(b, Ahead(sq, At(b, sq), 1)) # "."
    /\ At(b, Ahead(sq, At(b, sq), 2)) = "."

\* the pawn on sq stands on its home row, the square in front of it empty,
\* the next one occupied
BlockedFar(b, sq) ==
    /\ sq[1] = HomeRow(At(b, sq))
    /\ At(b, Ahead(sq, At(b, sq), 1)) = "."
    /\ At(b, Ahead(sq, At(b, sq), 2)) # "."

\* C30: at every prompt and for every pawn on the board, of either colour,
\* the moves generated for it hold a step of two squares if and only if the
\* pawn stands on the row its colour starts on and both the square in front
\* of it and the one after are empty, so never when the nearer square is
\* occupied; and all_moves() lists such a step only then.
C30_DoublePushIffHomeAndClear ==
    pc = "input" =>
        \A sq \in Pawns(board) :
            DoublePushRight(Self, sq, At(board, sq),
                            PawnMoves(Self, sq[1], sq[2], At(board, sq)), legal)

\* One pawn is blocked on the nearer square only, one on the farther only,
\* one moved off its home row with two empty squares ahead, and a step of two
\* is listed.
C30_Witness ==
    /\ pc = "input"
    /\ \E sq \in Pawns(board) : BlockedNear(board, sq)
    /\ \E sq \in Pawns(board) : BlockedFar(board, sq)
    /\ \E sq \in Pawns(board) :
          /\ sq[1] \in 2..5
          /\ At(board, Ahead(sq, At(board, sq), 1)) = "."
          /\ At(board, Ahead(sq, At(board, sq), 2)) = "."
    /\ \E sq \in Pawns(board) : HasDoublePush(legal, sq, At(board, sq))

=============================================================================
